---- MODULE Spec2Model ----
(***************************************************************************)
(* Advisory-signal pipeline of AppTrack (backend/app/services/advisory):   *)
(* the write path populate_advisories_ws2 / AdvisoryPopulator, the read    *)
(* path get_advisory_envelope, and the PostgreSQL tables p3_feature_state, *)
(* p3_advisory_budget, p3_advisory_cache and p3_advisory_signal they use.  *)
(*                                                                         *)
(* Every populate call runs in its own SQLAlchemy session, that is in its  *)
(* own READ COMMITTED transaction: a statement sees the committed rows and *)
(* the rows its own transaction wrote; an UPDATE of a row, or an INSERT    *)
(* that meets a unique key, waits for the uncommitted transaction that     *)
(* holds that row or key; a failed statement leaves the transaction        *)
(* aborted until it is rolled back.                                        *)
(***************************************************************************)
EXTENDS Integers, Sequences, FiniteSets, TLC

\* ---------------------------------------------------------------- bounds
NumCalls == 2        \* populate calls (sessions) that may run concurrently
MaxAdvisories == 2   \* largest max_advisories a populator is built with
MaxNow == 1          \* last day of the wall clock
MaxFaults == 1       \* statements of populate calls made to fail in one behaviour
MaxSignals == 2      \* signals of an envelope handed to the presenter
MaxNone == 1         \* required fields of an analysis that are None at once

\* ------------------------------------------------------ program constants
DEFAULT_MAX_ADVISORIES == 1
BucketModulus == 100

NULL == "null"
NoRow == [absent |-> TRUE]

Calls == 1..NumCalls
Times == 0..MaxNow

\* ------------------------------------------------------------ identifiers
\* Three resume ids (owners): "r48" is UUID 00000000-0000-0000-0000-000000000048,
\* "r23" is UUID 00000000-0000-0000-0000-000000000023 and "r14" is UUID
\* 00000000-0000-0000-0000-000000000014.
Resumes == {"r48", "r23", "r14"}
JobPostings == {"j1", "j2"}

\* Two more resume ids, met by the rollout helpers only: "r37" is UUID
\* 00000000-0000-0000-0000-000000000037 and "r106" is UUID
\* 00000000-0000-0000-0000-000000000106.
BucketProbes == Resumes \cup {"r37", "r106"}

\* sha256(resume_id.bytes).digest() of these UUIDs, byte by byte.
Sha256 ==
    [r \in BucketProbes |->
        IF r = "r37"
        THEN << 94, 131, 233, 36, 152, 239, 90, 7, 155, 21, 24, 180, 100, 67, 227, 172,
                67, 41, 20, 127, 159, 3, 57, 56, 124, 108, 39, 154, 230, 218, 112, 52 >>
        ELSE IF r = "r106"
        THEN << 74, 130, 147, 59, 4, 112, 87, 159, 238, 113, 24, 169, 28, 184, 181, 230,
                229, 156, 211, 159, 161, 47, 8, 9, 3, 2, 178, 193, 251, 224, 50, 99 >>
        ELSE IF r = "r48"
        THEN << 82, 235, 17, 81, 189, 86, 30, 16, 55, 230, 19, 245, 48, 62, 167, 78,
                169, 139, 160, 187, 121, 58, 231, 84, 8, 1, 228, 36, 234, 84, 77, 98 >>
        ELSE IF r = "r23"
        THEN << 61, 72, 204, 202, 118, 40, 136, 175, 137, 14, 168, 208, 157, 109, 111, 38,
                2, 167, 97, 166, 141, 213, 61, 61, 208, 14, 38, 192, 80, 181, 152, 241 >>
        ELSE << 190, 164, 241, 112, 153, 166, 239, 194, 58, 247, 228, 47, 100, 224, 235, 218,
                179, 23, 40, 124, 247, 115, 179, 13, 163, 250, 222, 219, 251, 196, 65, 85 >>]

\* int(digest, 16) % m, computed most significant byte first.
RECURSIVE BigModFrom(_, _, _, _)
BigModFrom(bytes, k, acc, m) ==
    IF k > Len(bytes) THEN acc
    ELSE BigModFrom(bytes, k + 1, (acc * 256 + bytes[k]) % m, m)

IntOfHexMod(bytes, m) == BigModFrom(bytes, 1, 0, m)

\* population.py _deterministic_bucket
deterministic_bucket(resume_id) == IntOfHexMod(Sha256[resume_id], BucketModulus)

\* exposure.py _deterministic_bucket
exposure_deterministic_bucket(resume_id) == IntOfHexMod(Sha256[resume_id], BucketModulus)

\* The committed analysis records handed to populate. A1 and A2 are two
\* analyses of the same resume and job posting.
AnalysisResults ==
    { [id |-> "A1", resume_id |-> "r48", job_posting_id |-> "j1"],
      [id |-> "A2", resume_id |-> "r48", job_posting_id |-> "j1"],
      [id |-> "A3", resume_id |-> "r14", job_posting_id |-> "j1"] }

NoAnalysis == [id |-> "", resume_id |-> "", job_posting_id |-> ""]

\* AdvisoryComputationRequest. expires_at of a result or a signal is the
\* empty set for None, else the set of its one time.
FitStability == [signal_type |-> "fit_stability", model_version |-> "v1"]
OpportunityRisk == [signal_type |-> "opportunity_risk", model_version |-> "v1"]
Requests == {FitStability, OpportunityRisk}

\* What computer.plan(analysis_result) may return. PlanRaises stands for a
\* plan() that throws.
PlanRaises == << [signal_type |-> "raise", model_version |-> ""] >>
Plans == { << >>, << FitStability >>, << FitStability, OpportunityRisk >>, PlanRaises }

\* population.py _cache_key: sha256 of the concatenation, taken as injective
\* on the concatenated text.
cache_key(analysis_result_id, signal_type, model_version) ==
    analysis_result_id \o signal_type \o model_version

\* ------------------------------------------------------------ feature gate
FeatureRow(enabled, rollout_percent) ==
    [absent |-> FALSE, enabled |-> enabled, rollout_percent |-> rollout_percent]

\* Values an operator gives the p3_feature_state row (CHECK 0..100), or no row.
FeatureStates ==
    { NoRow, FeatureRow(FALSE, 0), FeatureRow(FALSE, 50), FeatureRow(TRUE, 0),
      FeatureRow(TRUE, 50) }

\* A kill switch that forgets the enabled flag.
is_feature_enabled_ignoring_enabled(feature_state) ==
    /\ ~feature_state.absent
    /\ feature_state.rollout_percent > 0

\* population.py _is_feature_enabled
is_feature_enabled(feature_state) ==
    /\ ~feature_state.absent
    /\ feature_state.enabled
    /\ feature_state.rollout_percent > 0

\* A rollout check that admits a bucket equal to the percentage.
is_rollout_eligible_at_most(resume_id, rollout_percent) ==
    deterministic_bucket(resume_id) <= rollout_percent

\* population.py _is_rollout_eligible
is_rollout_eligible(resume_id, rollout_percent) ==
    deterministic_bucket(resume_id) < rollout_percent

\* A read-side kill switch that forgets the enabled flag.
exposure_is_feature_enabled_ignoring_enabled(feature_state) ==
    /\ ~feature_state.absent
    /\ feature_state.rollout_percent > 0

\* exposure.py _is_feature_enabled
exposure_is_feature_enabled(feature_state) ==
    /\ ~feature_state.absent
    /\ feature_state.enabled
    /\ feature_state.rollout_percent > 0

\* A read-side rollout check that admits a bucket equal to the percentage.
exposure_is_rollout_eligible_at_most(resume_id, rollout_percent) ==
    exposure_deterministic_bucket(resume_id) <= rollout_percent

\* exposure.py _is_rollout_eligible
exposure_is_rollout_eligible(resume_id, rollout_percent) ==
    exposure_deterministic_bucket(resume_id) < rollout_percent

\* feature_state.py _deterministic_bucket
feature_state_deterministic_bucket(resume_id) == IntOfHexMod(Sha256[resume_id], BucketModulus)

\* feature_state.py is_kill_switch_engaged
is_kill_switch_engaged(feature_state) == ~(~feature_state.absent /\ feature_state.enabled)

\* feature_state.py is_rollout_configured
is_rollout_configured(feature_state) ==
    /\ ~feature_state.absent
    /\ feature_state.enabled
    /\ feature_state.rollout_percent > 0

\* feature_state.py is_rollout_eligible, which takes the row itself
feature_state_is_rollout_eligible(resume_id, feature_state) ==
    IF ~is_rollout_configured(feature_state) THEN FALSE
    ELSE feature_state_deterministic_bucket(resume_id) < feature_state.rollout_percent

\* ------------------------------------------------------------------ state
VARIABLES
    now,       \* the wall clock read by date.today() and func.now(), in days
    feature,   \* the p3_feature_state row of "p3_advisory", or NoRow
    budget,    \* committed rows of p3_advisory_budget
    cache,     \* committed rows of p3_advisory_cache
    signal,    \* committed rows of p3_advisory_signal
    tx,        \* per session: the rows its open transaction wrote, and whether it is aborted
    call,      \* per populate call: its arguments, locals and position in the code
    faults,    \* statements of populate calls made to fail so far
    obs,       \* per populate call: what it did (history, read by the properties only)
    reader,    \* the get_advisory_envelope call: arguments, locals, position, result
    eval,      \* the last call of a pure helper: its name, arguments and result
    queue,     \* the committed analysis_queue row of the one job
    analyses,  \* committed rows of analysis_results
    worker     \* per analysis worker: its position in process_analysis_job and its locals

vars ==
    << now, feature, budget, cache, signal, tx, call, faults, obs, reader, eval,
       queue, analyses, worker >>

\* date.today()
Today(t) == t

\* A session with nothing pending: no uncommitted p3 rows, no uncommitted
\* status of the job, transaction not aborted.
EmptyTx == [budget |-> {}, cache |-> {}, signal |-> {}, job |-> {}, failed |-> FALSE]

IdleCall ==
    [pc |-> "idle", analysis |-> NoAnalysis, plan |-> << >>,
     max_advisories |-> DEFAULT_MAX_ADVISORIES, i |-> 0, feature_state |-> NoRow,
     expires_at |-> {}, returned |-> "none"]

\* did: which of "write", "plan", "compute" the call has done; computed: the
\* cache keys it invoked compute() for; granted, denied: results of its
\* consumes; rows: the (resume_id, budget_day) keys it consumed against; faulted: a statement of
\* it failed; hit_committed: its last cache lookup ran when the key was
\* committed; persisted: keys for which _persist_signal ran to its end;
\* committed: its session was committed; alone: no other call was in flight
\* when it started; exhausted: the keys it logged budget_exhausted for.
NoObs ==
    [did |-> {}, computed |-> {}, granted |-> 0, denied |-> 0, rows |-> {},
     faulted |-> FALSE, hit_committed |-> FALSE, persisted |-> {}, committed |-> FALSE,
     alone |-> TRUE, exhausted |-> {}]

IdleReader ==
    [pc |-> "idle", resume_id |-> "", job_posting_id |-> "", feature_state |-> NoRow,
     queried_at |-> 0, signals |-> << >>, envelope |-> {}, returned |-> "none",
     failed |-> FALSE, load_failed |-> FALSE]

\* A worker that has not polled the queue. attempts and status are those of
\* the job object it holds; completion_committed: its commit of the job's
\* 'complete' status went through.
IdleWorker ==
    [pc |-> "idle", attempts |-> 0, error |-> "none", completion_committed |-> FALSE]

\* No pure helper has been called.
NoEval == [op |-> "none"]

\* The database right after migration b8b2edb7c5df: empty p3 tables and the
\* feature row ('p3_advisory', false, 0).
Init ==
    /\ now = 0
    /\ feature = FeatureRow(FALSE, 0)
    /\ budget = {}
    /\ cache = {}
    /\ signal = {}
    /\ tx = [p \in Calls |-> EmptyTx]
    /\ call = [p \in Calls |-> IdleCall]
    /\ faults = 0
    /\ obs = [p \in Calls |-> NoObs]
    /\ reader = IdleReader
    /\ eval = NoEval
    /\ queue = [status |-> "pending", attempts |-> 0]
    /\ analyses = {}
    /\ worker = [w \in Calls |-> IdleWorker]

\* ------------------------------------------------------ storage primitives
SameBudgetKey(b, resume_id, day) == b.resume_id = resume_id /\ b.budget_day = day

\* The budget rows a statement of session p sees: its own versions, and the
\* committed rows it has not written itself.
VisibleBudget(p) ==
    tx[p].budget \cup
        { b \in budget : \A o \in tx[p].budget : ~SameBudgetKey(o, b.resume_id, b.budget_day) }

VisibleCache(p) == cache \cup tx[p].cache

\* Whether a statement of session p fails: always in an aborted transaction,
\* otherwise only while failures may still be injected.
StatementOutcomes(p) ==
    IF tx[p].failed THEN {FALSE}
    ELSE IF faults < MaxFaults THEN {TRUE, FALSE} ELSE {TRUE}

Inject(p, ok) == IF ok \/ tx[p].failed THEN faults ELSE faults + 1

\* A loop whose skipped request goes on to compute.
NextRequest_falling_through(c) == [c EXCEPT !.pc = "compute"]

\* The loop header of populate_advisories_ws2: the next planned request, or
\* the normal return after the last one.
NextRequest(c) ==
    IF c.i < Len(c.plan)
    THEN [c EXCEPT !.pc = "select", !.i = c.i + 1]
    ELSE [IdleCall EXCEPT !.pc = "returned", !.returned = "normal", !.analysis = c.analysis,
                          !.feature_state = c.feature_state]

\* A return that falls into the loop instead of leaving populate.
Returns_into_loop(c) == [c EXCEPT !.pc = "ensure"]

\* The normal return of populate_from_analysis: its locals are gone, but for
\* the feature state it read.
Returns(c) ==
    [IdleCall EXCEPT !.pc = "returned", !.returned = "normal", !.analysis = c.analysis,
                     !.feature_state = c.feature_state]

CurrentRequest(c) == c.plan[c.i]

CurrentKey(c) ==
    cache_key(c.analysis.id, CurrentRequest(c).signal_type, CurrentRequest(c).model_version)

\* gen_random_uuid(): the id of the signal call p inserts for its i-th request.
SignalId(p, c) == << p, c.i >>

\* ------------------------------------------------------------ populate call
\* AdvisoryPopulator(computer, max_advisories).populate_from_analysis(db, analysis_result)
\* is entered with a fresh session; plan is what computer.plan() will return.
Start(p, a, plan, m) ==
    /\ call[p].pc = "idle"
    /\ \A q \in Calls : q < p => call[q].pc # "idle"
    /\ call' = [call EXCEPT ![p] =
                  [IdleCall EXCEPT !.pc = "feature", !.analysis = a, !.plan = plan,
                                   !.max_advisories = m]]
    /\ obs' = [obs EXCEPT ![p].alone =
                            \A q \in Calls \ {p} : call[q].pc \in {"idle", "closed"}]
    /\ UNCHANGED << now, feature, budget, cache, signal, tx, faults, reader, eval,
                    queue, analyses, worker >>

\* Whether the attributes of the analysis record are loaded when a log
\* event reads them (observability.py _build_context, outside the try of
\* log_phase3_event): a record expired by the caller's last commit is
\* refreshed by a SELECT, which raises in an aborted transaction.
AnalysisLoaded == {TRUE, FALSE}

\* populate_advisories_ws2, lines 279-340: the feature-state query, the kill
\* switch, the rollout check and computer.plan(). When the query fails, the
\* contract_violation event is logged with the analysis record; if that raises
\* the exception leaves populate_advisories_ws2.
LoadFeature(p) ==
    /\ call[p].pc = "feature"
    /\ \E ok \in StatementOutcomes(p) :
          /\ faults' = Inject(p, ok)
          /\ tx' = [tx EXCEPT ![p].failed = @ \/ ~ok]
          /\ IF ~ok
             THEN /\ \E loaded \in AnalysisLoaded :
                        call' = [call EXCEPT ![p] =
                                    IF loaded THEN Returns(@)
                                    ELSE [@ EXCEPT !.pc = "rollback_populate"]]
                  /\ obs' = [obs EXCEPT ![p].faulted = TRUE]
             ELSE IF ~is_feature_enabled(feature)
             THEN /\ call' = [call EXCEPT ![p] = Returns([@ EXCEPT !.feature_state = feature])]
                  /\ obs' = obs
             ELSE IF ~is_rollout_eligible(call[p].analysis.resume_id, feature.rollout_percent)
             THEN /\ call' = [call EXCEPT ![p] = Returns([@ EXCEPT !.feature_state = feature])]
                  /\ obs' = obs
             ELSE IF call[p].plan = PlanRaises \/ call[p].plan = << >>
             THEN /\ call' = [call EXCEPT ![p] = Returns([@ EXCEPT !.feature_state = feature])]
                  /\ obs' = [obs EXCEPT ![p].did = @ \cup {"plan"}]
             ELSE /\ call' = [call EXCEPT ![p] = [@ EXCEPT !.feature_state = feature,
                                                          !.pc = "select", !.i = 1]]
                  /\ obs' = [obs EXCEPT ![p].did = @ \cup {"plan"}]
    /\ UNCHANGED << now, feature, budget, cache, signal, reader, eval,
                    queue, analyses, worker >>

\* A cache lookup that never finds an entry.
select_cache_always_miss(p, key) == {}

\* _select_cache: the rows of p3_advisory_cache with this key that session p sees.
select_cache(p, key) == { c \in VisibleCache(p) : c.cache_key = key }

\* populate_advisories_ws2, lines 343-382: the cache key and the cache lookup.
SelectCache(p) ==
    /\ call[p].pc = "select"
    /\ \E ok \in StatementOutcomes(p) :
          LET key == CurrentKey(call[p])
              existing_cache == select_cache(p, key)
              seen == [obs EXCEPT ![p].hit_committed =
                          ok /\ (\E c \in cache : c.cache_key = key)]
          IN  /\ faults' = Inject(p, ok)
              /\ tx' = [tx EXCEPT ![p].failed = @ \/ ~ok]
              /\ IF ~ok
                 THEN /\ call' = [call EXCEPT ![p] = NextRequest(@)]
                      /\ obs' = [seen EXCEPT ![p].faulted = TRUE]
                 ELSE IF existing_cache # {}
                 THEN /\ call' = [call EXCEPT ![p] = NextRequest(@)]
                      /\ obs' = seen
                 ELSE /\ call' = [call EXCEPT ![p].pc = "ensure"]
                      /\ obs' = seen
    /\ UNCHANGED << now, feature, budget, cache, signal, reader, eval,
                    queue, analyses, worker >>

\* An _ensure_budget whose statement is an upsert: ON CONFLICT DO UPDATE
\* SET max_advisories = EXCLUDED.max_advisories, used_advisories = 0.
EnsureBudget_upserting(p) ==
    /\ call[p].pc = "ensure"
    /\ LET r == call[p].analysis.resume_id
           day == Today(now)
           held == \E q \in Calls \ {p} : \E b \in tx[q].budget : SameBudgetKey(b, r, day)
       IN  \E ok \in StatementOutcomes(p) :
              /\ ok => ~held
              /\ faults' = Inject(p, ok)
              /\ IF ~ok
                 THEN /\ tx' = [tx EXCEPT ![p].failed = TRUE]
                      /\ call' = [call EXCEPT ![p] = NextRequest(@)]
                      /\ obs' = [obs EXCEPT ![p].faulted = TRUE]
                 ELSE /\ tx' = [tx EXCEPT ![p].budget =
                                   { b \in @ : ~SameBudgetKey(b, r, day) } \cup
                                       {[resume_id |-> r, budget_day |-> day,
                                         max_advisories |-> call[p].max_advisories,
                                         used_advisories |-> 0]}]
                      /\ call' = [call EXCEPT ![p].pc = "consume"]
                      /\ obs' = [obs EXCEPT ![p].did = @ \cup {"write"}]
    /\ UNCHANGED << now, feature, budget, cache, signal, reader, eval,
                    queue, analyses, worker >>

\* _ensure_budget: INSERT ... ON CONFLICT (resume_id, budget_day) DO NOTHING.
\* It waits while another open transaction holds an uncommitted row of the key.
EnsureBudget(p) ==
    /\ call[p].pc = "ensure"
    /\ LET r == call[p].analysis.resume_id
           day == Today(now)
           present == \E b \in VisibleBudget(p) : SameBudgetKey(b, r, day)
           held == \E q \in Calls \ {p} : \E b \in tx[q].budget : SameBudgetKey(b, r, day)
       IN  \E ok \in StatementOutcomes(p) :
              /\ ok => (present \/ ~held)
              /\ faults' = Inject(p, ok)
              /\ IF ~ok
                 THEN /\ tx' = [tx EXCEPT ![p].failed = TRUE]
                      /\ call' = [call EXCEPT ![p] = NextRequest(@)]
                      /\ obs' = [obs EXCEPT ![p].faulted = TRUE]
                 ELSE /\ tx' = IF present THEN tx
                               ELSE [tx EXCEPT ![p].budget = @ \cup
                                       {[resume_id |-> r, budget_day |-> day,
                                         max_advisories |-> call[p].max_advisories,
                                         used_advisories |-> 0]}]
                      /\ call' = [call EXCEPT ![p].pc = "consume"]
                      /\ obs' = IF present THEN obs ELSE [obs EXCEPT ![p].did = @ \cup {"write"}]
    /\ UNCHANGED << now, feature, budget, cache, signal, reader, eval,
                    queue, analyses, worker >>

\* An UPDATE that forgets the used_advisories < max_advisories condition.
consume_where_unconditional(b) == TRUE

\* An UPDATE that only asks for a positive max_advisories.
consume_where_positive_max(b) == b.max_advisories > 0

\* An UPDATE whose condition is off by one.
consume_where_off_by_one(b) == b.used_advisories <= b.max_advisories

\* The WHERE clause of _consume_budget on a row of the (resume_id, today) key.
consume_where(b) == b.used_advisories < b.max_advisories

\* _consume_budget: one conditional UPDATE; granted iff rowcount = 1. The
\* UPDATE waits for another open transaction that holds the matching row.
\* When it returns False, populate_advisories_ws2 (lines 399-409) logs
\* budget_exhausted and goes on to the next request.
ConsumeBudget(p) ==
    /\ call[p].pc = "consume"
    /\ LET r == call[p].analysis.resume_id
           day == Today(now)
           rows == { b \in VisibleBudget(p) : SameBudgetKey(b, r, day) /\ consume_where(b) }
           mine == \E b \in tx[p].budget : SameBudgetKey(b, r, day)
           held == \E q \in Calls \ {p} : \E b \in tx[q].budget : SameBudgetKey(b, r, day)
       IN  \E ok \in StatementOutcomes(p) :
              /\ ok => (rows = {} \/ mine \/ ~held)
              /\ faults' = Inject(p, ok)
              /\ IF ~ok
                 THEN /\ tx' = [tx EXCEPT ![p].failed = TRUE]
                      /\ call' = [call EXCEPT ![p] = NextRequest(@)]
                      /\ obs' = [obs EXCEPT ![p].faulted = TRUE,
                                            ![p].exhausted = @ \cup {CurrentKey(call[p])}]
                 ELSE IF rows = {}
                 THEN /\ tx' = tx
                      /\ call' = [call EXCEPT ![p] = NextRequest(@)]
                      /\ obs' = [obs EXCEPT ![p].denied = @ + 1, ![p].rows = @ \cup {<< r, day >>},
                                            ![p].exhausted = @ \cup {CurrentKey(call[p])}]
                 ELSE /\ tx' = [tx EXCEPT ![p].budget =
                                   { b \in @ : ~SameBudgetKey(b, r, day) } \cup
                                   { [b EXCEPT !.used_advisories = @ + 1] : b \in rows }]
                      /\ call' = [call EXCEPT ![p].pc = "compute"]
                      /\ obs' = [obs EXCEPT ![p].granted = @ + 1, ![p].rows = @ \cup {<< r, day >>},
                                            ![p].did = @ \cup {"write"}]
    /\ UNCHANGED << now, feature, budget, cache, signal, reader, eval,
                    queue, analyses, worker >>

\* What computer.compute() may do: return a result without or with an expiry,
\* return None, or raise.
ComputeOutcomes == {"result", "expiring", "none", "raise"}

\* A loop that a failed computation ends.
Compute_aborting_on_failure(p, outcome) ==
    /\ call[p].pc = "compute"
    /\ obs' = [obs EXCEPT ![p].did = @ \cup {"compute"},
                          ![p].computed = @ \cup {CurrentKey(call[p])}]
    /\ call' = [call EXCEPT ![p] =
                  IF outcome = "result" THEN [@ EXCEPT !.pc = "add_signal", !.expires_at = {}]
                  ELSE IF outcome = "expiring"
                  THEN [@ EXCEPT !.pc = "add_signal", !.expires_at = {now + 1}]
                  ELSE Returns(@)]
    /\ UNCHANGED << now, feature, budget, cache, signal, tx, faults, reader, eval,
                    queue, analyses, worker >>

\* populate_advisories_ws2, lines 411-446: computer.compute() and the skip of
\* a request whose computation raised or returned None.
Compute(p, outcome) ==
    /\ call[p].pc = "compute"
    /\ obs' = [obs EXCEPT ![p].did = @ \cup {"compute"},
                          ![p].computed = @ \cup {CurrentKey(call[p])}]
    /\ call' = [call EXCEPT ![p] =
                  IF outcome = "result" THEN [@ EXCEPT !.pc = "add_signal", !.expires_at = {}]
                  ELSE IF outcome = "expiring"
                  THEN [@ EXCEPT !.pc = "add_signal", !.expires_at = {now + 1}]
                  ELSE NextRequest(@)]
    /\ UNCHANGED << now, feature, budget, cache, signal, tx, faults, reader, eval,
                    queue, analyses, worker >>

\* What db.rollback() may do: succeed or raise.
RollbackOutcomes == {TRUE, FALSE}

\* _persist_signal, lines 211-228: db.add(signal); db.flush().
AddSignal(p) ==
    /\ call[p].pc = "add_signal"
    /\ \E ok \in StatementOutcomes(p) :
          /\ faults' = Inject(p, ok)
          /\ IF ~ok
             THEN /\ tx' = [tx EXCEPT ![p].failed = TRUE]
                  /\ call' = [call EXCEPT ![p].pc = "rollback_persist"]
                  /\ obs' = [obs EXCEPT ![p].faulted = TRUE]
             ELSE /\ tx' = [tx EXCEPT ![p].signal = @ \cup
                               {[id |-> SignalId(p, call[p]),
                                 resume_id |-> call[p].analysis.resume_id,
                                 job_posting_id |-> call[p].analysis.job_posting_id,
                                 signal_type |-> CurrentRequest(call[p]).signal_type,
                                 model_version |-> CurrentRequest(call[p]).model_version,
                                 computed_at |-> now,
                                 expires_at |-> call[p].expires_at,
                                 is_active |-> TRUE]}]
                  /\ call' = [call EXCEPT ![p].pc = "insert_cache"]
                  /\ obs' = [obs EXCEPT ![p].did = @ \cup {"write"}]
    /\ UNCHANGED << now, feature, budget, cache, signal, reader, eval,
                    queue, analyses, worker >>

\* _persist_signal, lines 230-244: INSERT INTO p3_advisory_cache ... ON CONFLICT
\* (cache_key) DO NOTHING. It waits while another open transaction holds an
\* uncommitted entry of the key; rowcount is 0 when the key is already there.
InsertCache(p) ==
    /\ call[p].pc = "insert_cache"
    /\ LET key == CurrentKey(call[p])
           present == \E c \in VisibleCache(p) : c.cache_key = key
           held == \E q \in Calls \ {p} : \E c \in tx[q].cache : c.cache_key = key
       IN  \E ok \in StatementOutcomes(p) :
              /\ ok => (present \/ ~held)
              /\ faults' = Inject(p, ok)
              /\ IF ~ok
                 THEN /\ tx' = [tx EXCEPT ![p].failed = TRUE]
                      /\ call' = [call EXCEPT ![p].pc = "rollback_persist"]
                      /\ obs' = [obs EXCEPT ![p].faulted = TRUE]
                 ELSE IF present
                 THEN /\ tx' = tx
                      /\ call' = [call EXCEPT ![p].pc = "delete_signal"]
                      /\ obs' = obs
                 ELSE /\ tx' = [tx EXCEPT ![p].cache = @ \cup
                                   {[cache_key |-> key, signal_id |-> SignalId(p, call[p])]}]
                      /\ call' = [call EXCEPT ![p] = NextRequest(@)]
                      /\ obs' = [obs EXCEPT ![p].persisted = @ \cup {key}]
    /\ UNCHANGED << now, feature, budget, cache, signal, reader, eval,
                    queue, analyses, worker >>

\* A lost race that leaves the Signal just written in place.
DeleteSignal_keeping_signal(p) ==
    /\ call[p].pc = "delete_signal"
    /\ call' = [call EXCEPT ![p].pc = "reselect"]
    /\ UNCHANGED << now, feature, budget, cache, signal, tx, faults, obs, reader, eval,
                    queue, analyses, worker >>

\* _persist_signal, lines 245-246: the compensating db.delete(signal); db.flush().
DeleteSignal(p) ==
    /\ call[p].pc = "delete_signal"
    /\ \E ok \in StatementOutcomes(p) :
          /\ faults' = Inject(p, ok)
          /\ IF ~ok
             THEN /\ tx' = [tx EXCEPT ![p].failed = TRUE]
                  /\ call' = [call EXCEPT ![p].pc = "rollback_persist"]
                  /\ obs' = [obs EXCEPT ![p].faulted = TRUE]
             ELSE /\ tx' = [tx EXCEPT ![p].signal = { s \in @ : s.id # SignalId(p, call[p]) }]
                  /\ call' = [call EXCEPT ![p].pc = "reselect"]
                  /\ obs' = obs
    /\ UNCHANGED << now, feature, budget, cache, signal, reader, eval,
                    queue, analyses, worker >>

\* _persist_signal, lines 247-260: the _select_cache after a lost race (its
\* failure is swallowed) and the compute_success event.
Reselect(p) ==
    /\ call[p].pc = "reselect"
    /\ \E ok \in StatementOutcomes(p) :
          /\ faults' = Inject(p, ok)
          /\ tx' = [tx EXCEPT ![p].failed = @ \/ ~ok]
          /\ call' = [call EXCEPT ![p] = NextRequest(@)]
          /\ obs' = [obs EXCEPT ![p].faulted = @ \/ ~ok,
                                ![p].persisted = @ \cup {CurrentKey(call[p])}]
    /\ UNCHANGED << now, feature, budget, cache, signal, reader, eval,
                    queue, analyses, worker >>

\* _persist_signal, lines 261-269: the except branch, db.rollback(). A rollback
\* that raises leaves _persist_signal and populate_advisories_ws2.
RollbackPersist(p) ==
    /\ call[p].pc = "rollback_persist"
    /\ \E ok \in RollbackOutcomes :
          IF ok
          THEN /\ tx' = [tx EXCEPT ![p] = EmptyTx]
               /\ call' = [call EXCEPT ![p] = NextRequest(@)]
          ELSE /\ tx' = tx
               /\ call' = [call EXCEPT ![p].pc = "rollback_populate"]
    /\ UNCHANGED << now, feature, budget, cache, signal, faults, obs, reader, eval,
                    queue, analyses, worker >>

\* AdvisoryPopulator.populate_from_analysis, lines 469-471: except Exception:
\* db.rollback(). A rollback that raises reaches the caller.
RollbackPopulate(p) ==
    /\ call[p].pc = "rollback_populate"
    /\ \E ok \in RollbackOutcomes :
          IF ok
          THEN /\ tx' = [tx EXCEPT ![p] = EmptyTx]
               /\ call' = [call EXCEPT ![p] = Returns(@)]
          ELSE /\ tx' = tx
               /\ call' = [call EXCEPT ![p] = [Returns(@) EXCEPT !.returned = "raised"]]
    /\ UNCHANGED << now, feature, budget, cache, signal, faults, obs, reader, eval,
                    queue, analyses, worker >>

\* The budget rows once session p's transaction is made durable.
CommittedBudget(p) ==
    { b \in budget : \A o \in tx[p].budget : ~SameBudgetKey(o, b.resume_id, b.budget_day) }
        \cup tx[p].budget

\* The call is over and its session ended.
Closed(c) == [IdleCall EXCEPT !.pc = "closed"]

\* The caller commits its session after populate returned (sessions are made
\* with autocommit=False). COMMIT of an aborted transaction rolls it back.
CallerCommit(p) ==
    /\ call[p].pc = "returned"
    /\ call' = [call EXCEPT ![p] = Closed(@)]
    /\ IF tx[p].failed
       THEN UNCHANGED << budget, cache, signal >>
       ELSE /\ budget' = CommittedBudget(p)
            /\ cache' = cache \cup tx[p].cache
            /\ signal' = signal \cup tx[p].signal
    /\ obs' = [obs EXCEPT ![p].committed = ~tx[p].failed, ![p].did = {},
                          ![p].hit_committed = FALSE]
    /\ tx' = [tx EXCEPT ![p] = EmptyTx]
    /\ UNCHANGED << now, feature, faults, reader, eval,
                    queue, analyses, worker >>

\* analysis_worker.process_analysis_job: no commit follows populate; the
\* finally branch closes the session, which rolls the open transaction back.
CallerClose(p) ==
    /\ call[p].pc = "returned"
    /\ call' = [call EXCEPT ![p] = Closed(@)]
    /\ obs' = [obs EXCEPT ![p].did = {}, ![p].hit_committed = FALSE]
    /\ tx' = [tx EXCEPT ![p] = EmptyTx]
    /\ UNCHANGED << now, feature, budget, cache, signal, faults, reader, eval,
                    queue, analyses, worker >>

\* -------------------------------------------------------------- environment
\* The wall clock advances.
Tick ==
    /\ now < MaxNow
    /\ now' = now + 1
    /\ UNCHANGED << feature, budget, cache, signal, tx, call, faults, obs, reader, eval,
                    queue, analyses, worker >>

\* An operator rewrites or removes the p3_feature_state row, out of band.
OperatorSetFeature ==
    /\ \E f \in FeatureStates \ {feature} : feature' = f
    /\ UNCHANGED << now, budget, cache, signal, tx, call, faults, obs, reader, eval,
                    queue, analyses, worker >>

\* Soft deactivation of a stored signal (p3_advisory_signal.is_active), out of band.
OperatorDeactivate ==
    /\ \E s \in signal :
          /\ s.is_active
          /\ signal' = (signal \ {s}) \cup {[s EXCEPT !.is_active = FALSE]}
    /\ UNCHANGED << now, feature, budget, cache, tx, call, faults, obs, reader, eval,
                    queue, analyses, worker >>

\* ---------------------------------------------------------------- read path
\* A _load_feature_state without its try/except.
load_feature_state_unguarded(ok, row) ==
    IF ok THEN [raised |-> FALSE, value |-> row] ELSE [raised |-> TRUE, value |-> NoRow]

\* exposure.py _load_feature_state: the row, or None when the query raises.
load_feature_state(ok, row) ==
    IF ok THEN [raised |-> FALSE, value |-> row] ELSE [raised |-> FALSE, value |-> NoRow]

\* exposure.py lines 96-117: the rollout check inside its try; a resume_id that
\* is no UUID makes _deterministic_bucket raise.
rollout_check(resume_id, feature_state) ==
    IF resume_id \notin Resumes
    THEN [raised |-> FALSE, returns |-> TRUE]
    ELSE [raised |-> FALSE,
          returns |-> ~exposure_is_rollout_eligible(resume_id, feature_state.rollout_percent)]

\* A signal query that forgets is_active.
signal_filter_ignoring_is_active(s, resume_id, job_posting_id, at) ==
    /\ s.resume_id = resume_id
    /\ s.job_posting_id = job_posting_id
    /\ (s.expires_at = {} \/ \E t \in s.expires_at : t > at)

\* exposure.py lines 120-133: the filter of the signal query.
signal_filter(s, resume_id, job_posting_id, at) ==
    /\ s.resume_id = resume_id
    /\ s.job_posting_id = job_posting_id
    /\ s.is_active = TRUE
    /\ (s.expires_at = {} \/ \E t \in s.expires_at : t > at)

\* A signal query without its try/except.
signal_lookup_unguarded(ok, rows) ==
    IF ok THEN [raised |-> FALSE, returns |-> FALSE, rows |-> rows]
    ELSE [raised |-> TRUE, returns |-> FALSE, rows |-> {}]

\* exposure.py lines 119-141: the query inside its try; None when it raises.
signal_lookup(ok, rows) ==
    IF ok THEN [raised |-> FALSE, returns |-> FALSE, rows |-> rows]
    ELSE [raised |-> FALSE, returns |-> TRUE, rows |-> {}]

\* A query that orders oldest first.
OrderByComputedAtAsc(rows) ==
    { q \in [1..Cardinality(rows) -> rows] :
         /\ \A i, j \in 1..Cardinality(rows) : i # j => q[i] # q[j]
         /\ \A i, j \in 1..Cardinality(rows) : i < j => q[i].computed_at <= q[j].computed_at }

\* ORDER BY computed_at DESC: every order of the rows that is newest first.
OrderByComputedAtDesc(rows) ==
    { q \in [1..Cardinality(rows) -> rows] :
         /\ \A i, j \in 1..Cardinality(rows) : i # j => q[i] # q[j]
         /\ \A i, j \in 1..Cardinality(rows) : i < j => q[i].computed_at >= q[j].computed_at }

\* get_advisory_envelope, lines 85-117: feature state, kill switch, rollout.
ExposureLoad ==
    /\ reader.pc = "idle"
    /\ \E r \in Resumes \cup {NULL}, j \in JobPostings, ok \in BOOLEAN :
          LET loaded == load_feature_state(ok, feature)
              args == [reader EXCEPT !.resume_id = r, !.job_posting_id = j,
                                     !.feature_state = loaded.value, !.failed = ~ok,
                                     !.load_failed = ~ok]
          IN  IF loaded.raised
              THEN reader' = [args EXCEPT !.pc = "done", !.returned = "raised"]
              ELSE IF ~exposure_is_feature_enabled(loaded.value)
              THEN reader' = [args EXCEPT !.pc = "done", !.returned = "absent"]
              ELSE LET checked == rollout_check(r, loaded.value)
                   IN  IF checked.raised
                       THEN reader' = [args EXCEPT !.pc = "done", !.returned = "raised"]
                       ELSE IF checked.returns
                       THEN reader' = [args EXCEPT !.pc = "done", !.returned = "absent",
                                                   !.failed = r \notin Resumes]
                       ELSE reader' = [args EXCEPT !.pc = "query"]
    /\ UNCHANGED << now, feature, budget, cache, signal, tx, call, faults, obs, eval,
                    queue, analyses, worker >>

\* exposure.py lines 167-189: the dict that is returned, one payload entry per
\* row in the order of the query, generated_at from the first row.
build_envelope(resume_id, job_posting_id, signals) ==
    [resume_id |-> resume_id,
     job_posting_id |-> job_posting_id,
     advisory_only |-> TRUE,
     generated_at |-> signals[1].computed_at,
     signals |-> [k \in 1..Len(signals) |->
                     [type |-> signals[k].signal_type,
                      model_version |-> signals[k].model_version,
                      computed_at |-> signals[k].computed_at]]]

\* api/routes/advisory.py get_advisory: 204 without a body when the call
\* raised or returned nothing, else the envelope.
get_advisory(returned, envelope) ==
    IF returned = "raised" \/ envelope = {}
    THEN [status_code |-> 204, body |-> {}]
    ELSE [status_code |-> 200, body |-> envelope]

\* A reader that deactivates the expired signals it comes across.
ExposureQuery_expiring_on_read ==
    /\ reader.pc = "query"
    /\ signal' = { IF \E t \in s.expires_at : t <= now
                   THEN [s EXCEPT !.is_active = FALSE] ELSE s : s \in signal }
    /\ reader' = [reader EXCEPT !.queried_at = now, !.pc = "done", !.returned = "absent"]
    /\ UNCHANGED << now, feature, budget, cache, tx, call, faults, obs, eval,
                    queue, analyses, worker >>

\* get_advisory_envelope, lines 119-189: the signal query and the envelope.
\* The session of the reader sees committed rows only.
ExposureQuery ==
    /\ reader.pc = "query"
    /\ \E ok \in BOOLEAN :
          LET found == signal_lookup(ok,
                          { s \in signal : signal_filter(s, reader.resume_id,
                                                         reader.job_posting_id, now) })
              at == [reader EXCEPT !.queried_at = now, !.failed = ~ok, !.pc = "done"]
          IN  IF found.raised
              THEN reader' = [at EXCEPT !.returned = "raised"]
              ELSE IF found.returns \/ found.rows = {}
              THEN reader' = [at EXCEPT !.returned = "absent"]
              ELSE \E q \in OrderByComputedAtDesc(found.rows) :
                      reader' = [at EXCEPT
                                    !.returned = "envelope", !.signals = q,
                                    !.envelope = {build_envelope(reader.resume_id,
                                                                 reader.job_posting_id, q)}]
    /\ UNCHANGED << now, feature, budget, cache, signal, tx, call, faults, obs, eval,
                    queue, analyses, worker >>

\* ----------------------------------------------------------- analysis worker
\* AnalysisQueue.max_attempts
MaxAttempts == 3

\* The AnalysisResult that run_analysis_for_application creates when worker w
\* runs it: a new row each time, for the resume and job posting of the job's
\* application.
WorkerAnalysis(w) ==
    [id |-> "A" \o ToString(w), resume_id |-> "r48", job_posting_id |-> "j1"]

\* poll_analysis_queue: SELECT the pending job (no row lock is taken) and
\* hand the loaded object to process_analysis_job.
Poll(w) ==
    /\ worker[w].pc = "idle"
    /\ queue.status = "pending"
    /\ worker' = [worker EXCEPT ![w].pc = "picked", ![w].attempts = queue.attempts]
    /\ UNCHANGED << now, feature, budget, cache, signal, tx, call, faults, obs, reader, eval,
                    queue, analyses >>

\* process_analysis_job, lines 33-43: db.merge(job); status = "processing";
\* attempts += 1; db.commit().
MarkProcessing(w) ==
    /\ worker[w].pc = "picked"
    /\ queue' = [status |-> "processing", attempts |-> worker[w].attempts + 1]
    /\ worker' = [worker EXCEPT ![w].pc = "analysis", ![w].attempts = @ + 1]
    /\ UNCHANGED << now, feature, budget, cache, signal, tx, call, faults, obs, reader, eval,
                    analyses >>

\* What run_analysis_for_application may do: commit a new AnalysisResult and
\* return it, or raise MissingDataError (with a message the worker takes for a
\* scrape still in progress, or another one), LLMError, or any other exception,
\* which db.refresh can raise after db.commit has made the row durable.
AnalysisOutcomes ==
    {"ok", "missing_data_race", "missing_data", "llm_error", "unexpected",
     "committed_then_raised"}

\* process_analysis_job, lines 45-62, and analyzer.py lines 125-168.
RunAnalysis(w) ==
    /\ worker[w].pc = "analysis"
    /\ \E outcome \in AnalysisOutcomes :
          IF outcome = "ok"
          THEN /\ analyses' = analyses \cup {WorkerAnalysis(w)}
               /\ worker' = [worker EXCEPT ![w].pc = "complete"]
          ELSE /\ analyses' = IF outcome = "committed_then_raised"
                            THEN analyses \cup {WorkerAnalysis(w)}
                            ELSE analyses
               /\ worker' = [worker EXCEPT
                                ![w].pc = "handler",
                                ![w].error = IF outcome = "committed_then_raised"
                                             THEN "unexpected" ELSE outcome]
    /\ UNCHANGED << now, feature, budget, cache, signal, tx, call, faults, obs, reader, eval,
                    queue >>

\* The job status a statement of session w sees: its own uncommitted one,
\* else the committed one.
JobStatusSeen(w) ==
    IF tx[w].job = {} THEN queue.status ELSE CHOOSE st \in tx[w].job : TRUE

\* A worker that sets the job complete and calls populate before committing.
MarkComplete_without_commit(w) ==
    /\ worker[w].pc = "complete"
    /\ tx' = [tx EXCEPT ![w].job = {"complete"}]
    /\ worker' = [worker EXCEPT ![w].pc = "populate"]
    /\ UNCHANGED << now, feature, budget, cache, signal, call, faults, obs, reader, eval,
                    queue, analyses >>

\* process_analysis_job, lines 64-69: status = "complete"; db.commit(). A
\* commit that raises is handled as an unexpected error.
MarkComplete(w) ==
    /\ worker[w].pc = "complete"
    /\ \E ok \in BOOLEAN :
          IF ok
          THEN /\ queue' = [queue EXCEPT !.status = "complete"]
               /\ worker' = [worker EXCEPT ![w].pc = "populate",
                                            ![w].completion_committed = TRUE]
          ELSE /\ queue' = queue
               /\ worker' = [worker EXCEPT ![w].pc = "handler", ![w].error = "unexpected"]
    /\ UNCHANGED << now, feature, budget, cache, signal, tx, call, faults, obs, reader, eval,
                    analyses >>

\* process_analysis_job, lines 71-74: the populate call, on the worker's
\* session, with the computer whose plan() returns [].
InvokePopulate(w) ==
    /\ worker[w].pc = "populate"
    /\ Start(w, WorkerAnalysis(w), << >>, DEFAULT_MAX_ADVISORIES)

\* process_analysis_job, lines 76-83 and 200-201: populate returned; the
\* finally branch closes the session without a commit.
WorkerFinally(w) ==
    /\ worker[w].pc = "populate"
    /\ call[w].pc = "returned" /\ call[w].returned = "normal"
    /\ call' = [call EXCEPT ![w] = Closed(@)]
    /\ obs' = [obs EXCEPT ![w].did = {}, ![w].hit_committed = FALSE]
    /\ tx' = [tx EXCEPT ![w] = EmptyTx]
    /\ worker' = [worker EXCEPT ![w].pc = "done"]
    /\ UNCHANGED << now, feature, budget, cache, signal, faults, reader, eval,
                    queue, analyses >>

\* process_analysis_job, line 174: the exception that left populate is
\* caught by except Exception.
PopulateRaised(w) ==
    /\ worker[w].pc = "populate"
    /\ call[w].pc = "returned" /\ call[w].returned = "raised"
    /\ worker' = [worker EXCEPT ![w].pc = "handler", ![w].error = "unexpected"]
    /\ UNCHANGED << now, feature, budget, cache, signal, tx, call, faults, obs, reader, eval,
                    queue, analyses >>

\* The status an except branch of process_analysis_job gives the job (lines
\* 85-198), from the committed attempts it reloads.
handler_status(error, attempts) ==
    IF error = "missing_data_race"
    THEN IF attempts < MaxAttempts THEN "pending" ELSE "failed"
    ELSE IF error = "missing_data" THEN "failed"
    ELSE IF attempts >= MaxAttempts THEN "failed" ELSE "pending"

\* process_analysis_job, lines 85-201: an except branch sets the job's status
\* and commits; the finally branch closes the session. When the branch itself
\* raises (the session is unusable), the status stays as committed.
Handler(w) ==
    /\ worker[w].pc = "handler"
    /\ \E ok \in BOOLEAN :
          queue' = IF ok
                   THEN [queue EXCEPT !.status = handler_status(worker[w].error, queue.attempts)]
                   ELSE queue
    /\ worker' = [worker EXCEPT ![w].pc = "done"]
    /\ IF call[w].pc = "returned"
       THEN /\ call' = [call EXCEPT ![w] = Closed(@)]
            /\ obs' = [obs EXCEPT ![w].did = {}, ![w].hit_committed = FALSE]
            /\ tx' = [tx EXCEPT ![w] = EmptyTx]
       ELSE UNCHANGED << call, obs, tx >>
    /\ UNCHANGED << now, feature, budget, cache, signal, faults, reader, eval, analyses >>

\* ------------------------------------------------------------- pure helpers
\* The values the CHECK constraint of p3_feature_state allows for rollout_percent.
RolloutPercents == 0..BucketModulus

\* _deterministic_bucket called twice for one resume id.
EvalBucket ==
    /\ eval.op = "none"
    /\ \E r \in BucketProbes :
          eval' = [op |-> "bucket", resume_id |-> r,
                   first |-> deterministic_bucket(r), again |-> deterministic_bucket(r)]
    /\ UNCHANGED << now, feature, budget, cache, signal, tx, call, faults, obs, reader,
                    queue, analyses, worker >>

\* _is_rollout_eligible called for one resume id at two percentages p <= q.
EvalEligible ==
    /\ eval.op = "none"
    /\ \E r \in BucketProbes, p, q \in RolloutPercents :
          /\ p <= q
          /\ eval' = [op |-> "eligible", resume_id |-> r, p |-> p, q |-> q,
                      at_p |-> is_rollout_eligible(r, p),
                      at_q |-> is_rollout_eligible(r, q)]
    /\ UNCHANGED << now, feature, budget, cache, signal, tx, call, faults, obs, reader,
                    queue, analyses, worker >>

\* Every p3_feature_state row the CHECK constraint allows, or no row.
GateStates ==
    {NoRow} \cup { FeatureRow(e, pct) : e \in BOOLEAN, pct \in RolloutPercents }

\* populate_advisories_ws2, lines 293-316: whether the call goes on to plan().
population_passes_gate(resume_id, feature_state) ==
    /\ is_feature_enabled(feature_state)
    /\ is_rollout_eligible(resume_id, feature_state.rollout_percent)

\* get_advisory_envelope, lines 96-117: whether the call goes on to the query.
exposure_passes_gate(resume_id, feature_state) ==
    /\ exposure_is_feature_enabled(feature_state)
    /\ exposure_is_rollout_eligible(resume_id, feature_state.rollout_percent)

\* The gate of the write path, of the read path and of feature_state.py
\* evaluated for one owner and one feature state.
EvalGate ==
    /\ eval.op = "none"
    /\ \E r \in BucketProbes, fs \in GateStates :
          eval' = [op |-> "gate", resume_id |-> r, feature_state |-> fs,
                   buckets |-> << deterministic_bucket(r), exposure_deterministic_bucket(r),
                                  feature_state_deterministic_bucket(r) >>,
                   enabled |-> << is_feature_enabled(fs), exposure_is_feature_enabled(fs),
                                  is_rollout_configured(fs) >>,
                   eligible |-> IF fs.absent THEN << >>
                                ELSE << is_rollout_eligible(r, fs.rollout_percent),
                                        exposure_is_rollout_eligible(r, fs.rollout_percent) >>,
                   passes |-> << population_passes_gate(r, fs), exposure_passes_gate(r, fs),
                                 feature_state_is_rollout_eligible(r, fs) >>]
    /\ UNCHANGED << now, feature, budget, cache, signal, tx, call, faults, obs, reader,
                    queue, analyses, worker >>

\* Computation tuples a computer may plan: signal_type and model_version are
\* free strings (AdvisoryComputationRequest), the analysis id is a UUID, whose
\* text has one length.
KeyAnalysisIds == {"A1", "A2"}
KeySignalTypes == {"opportunity_risk", "opportunity_risk2", "fit_stability"}
KeyModelVersions == {"1", "21"}
KeyTuples ==
    [analysis_result_id : KeyAnalysisIds, signal_type : KeySignalTypes,
     model_version : KeyModelVersions]

\* _cache_key called for two computation tuples.
EvalCacheKey ==
    /\ eval.op = "none"
    /\ \E a, b \in KeyTuples :
          eval' = [op |-> "cache_key", a |-> a, b |-> b,
                   key_a |-> cache_key(a.analysis_result_id, a.signal_type, a.model_version),
                   key_b |-> cache_key(b.analysis_result_id, b.signal_type, b.model_version)]
    /\ UNCHANGED << now, feature, budget, cache, signal, tx, call, faults, obs, reader,
                    queue, analyses, worker >>

\* ---------------------------------------------------------------- presenter
\* An Optional value is the empty set (None) or a set of one value. Python's
\* True is TRUE; the str "true" is the string.
REQUIRED_DISCLAIMER == "This guidance is advisory only and does not affect your application."

\* Confidences in hundredths, summaries and timestamps of the signals tried.
Confidences == {{}, {20}, {90}}
Summaries == {{}, {""}, {"Strong fit"}}
Timestamps == {{}, {0}}

\* schemas/advisory.py AdvisorySignal
AdvisorySignals ==
    [type : {"fit_stability", "opportunity_risk"}, summary : Summaries,
     confidence : Confidences, computed_at : Timestamps]

\* schemas/advisory.py AdvisoryEnvelope; signals defaults to the empty list.
AdvisoryEnvelopes ==
    [advisory_only : {TRUE}, generated_at : Timestamps,
     signals : UNION { [1..n -> AdvisorySignals] : n \in 0..MaxSignals }]

\* datetime.isoformat of day t of the clock.
isoformat(t) == "1970-01-0" \o ToString(t + 1) \o "T00:00:00"

\* _confidence_bucket
confidence_bucket(confidence) ==
    IF confidence = {} THEN {}
    ELSE LET c == CHOOSE x \in confidence : TRUE
         IN  IF c < 34 THEN {"Low"} ELSE IF c < 67 THEN {"Medium"} ELSE {"High"}

\* _format_signal: None for a signal without summary text, else the item.
format_signal(s) ==
    IF s.summary = {} \/ s.summary = {""}
    THEN {}
    ELSE {[signal_type |-> s.type,
           summary |-> CHOOSE x \in s.summary : TRUE,
           confidence |-> { "0." \o ToString(c) \o " (" \o b \o ")" :
                               c \in s.confidence, b \in confidence_bucket(s.confidence) },
           computed_at |-> { isoformat(t) : t \in s.computed_at }]}

\* _dedupe_signals: the first signal of each type, in order.
dedupe_signals(signals) ==
    SelectSeq([k \in 1..Len(signals) |->
                  [s |-> signals[k],
                   first |-> \A j \in 1..(k - 1) : signals[j].type # signals[k].type]],
              LAMBDA e : e.first)

\* The items of the panel: the formatted signals that are not None.
formatted_signals(signals) ==
    LET kept == SelectSeq(dedupe_signals(signals), LAMBDA e : format_signal(e.s) # {})
    IN  [k \in 1..Len(kept) |-> CHOOSE f \in format_signal(kept[k].s) : TRUE]

\* build_guidance_panel
build_guidance_panel(advisory, advisory_enabled) ==
    IF ~advisory_enabled THEN {}
    ELSE IF advisory = {} \/ \E a \in advisory : a.signals = << >> THEN {}
    ELSE LET a == CHOOSE x \in advisory : TRUE
             items == formatted_signals(a.signals)
         IN  IF items = << >> THEN {}
             ELSE {[label |-> "Guidance (optional)",
                    collapsed_by_default |-> TRUE,
                    advisory_only |-> TRUE,
                    disclaimer |-> REQUIRED_DISCLAIMER,
                    generated_at |-> { isoformat(t) : t \in a.generated_at },
                    items |-> items]}

\* A job card indicator that does not look at advisory_enabled.
build_job_card_indicator_ignoring_enabled(advisory, advisory_enabled) ==
    IF advisory = {} \/ \E a \in advisory : a.signals = << >> THEN {}
    ELSE {[label |-> "Guidance available",
           tooltip |-> "Guidance available (advisory only)",
           advisory_only |-> "true",
           disclaimer |-> REQUIRED_DISCLAIMER]}

\* build_job_card_indicator
build_job_card_indicator(advisory, advisory_enabled) ==
    IF ~advisory_enabled THEN {}
    ELSE IF advisory = {} \/ \E a \in advisory : a.signals = << >> THEN {}
    ELSE {[label |-> "Guidance available",
           tooltip |-> "Guidance available (advisory only)",
           advisory_only |-> "true",
           disclaimer |-> REQUIRED_DISCLAIMER]}

\* The arguments the presenter functions are tried with: no envelope or one.
PresenterInputs == {{}} \cup { {a} : a \in AdvisoryEnvelopes }

\* build_guidance_panel called once.
EvalPanel ==
    /\ eval.op = "none"
    /\ \E advisory \in PresenterInputs, advisory_enabled \in BOOLEAN :
          eval' = [op |-> "panel", advisory |-> advisory, advisory_enabled |-> advisory_enabled,
                   result |-> build_guidance_panel(advisory, advisory_enabled)]
    /\ UNCHANGED << now, feature, budget, cache, signal, tx, call, faults, obs, reader,
                    queue, analyses, worker >>

\* build_job_card_indicator called once.
EvalIndicator ==
    /\ eval.op = "none"
    /\ \E advisory \in PresenterInputs, advisory_enabled \in BOOLEAN :
          eval' = [op |-> "indicator", advisory |-> advisory,
                   advisory_enabled |-> advisory_enabled,
                   result |-> build_job_card_indicator(advisory, advisory_enabled)]
    /\ UNCHANGED << now, feature, budget, cache, signal, tx, call, faults, obs, reader,
                    queue, analyses, worker >>

\* -------------------------------------------------------------- computation
\* Confidences are in millionths, as _safe_decimal keeps six decimals; dates
\* are day numbers; an Optional value is the empty set or a set of one value.
MODEL_VERSION == "ws3_advisory_v1"

\* The fields _validate_analysis requires, in its order.
RequiredFields ==
    {"id", "resume_id", "job_posting_id", "match_score", "qualifications_met",
     "qualifications_missing", "suggestions", "llm_provider", "llm_model", "created_at"}

\* Analysis records as run_analysis_for_application builds them: an integer
\* score in 0..100, lists of qualifications, a provider name, a creation day.
QualificationLists == { << >>, << "skill_a" >>, << "skill_a", "skill_b" >> }

FullAnalyses ==
    [id : {{"A1"}}, resume_id : {{"r48"}}, job_posting_id : {{"j1"}},
     match_score : {{0}, {74}, {75}, {100}},
     qualifications_met : { {l} : l \in QualificationLists },
     qualifications_missing : { {l} : l \in QualificationLists },
     suggestions : {{<< "suggestion" >>}},
     llm_provider : {{"OpenAI"}, {"local"}},
     llm_model : {{"gpt-4"}},
     created_at : {{5}, {20}}]

\* The record with the fields of none set to None.
WithNone(a, none) == [f \in RequiredFields |-> IF f \in none THEN {} ELSE a[f]]

\* The analysis argument: None, or a record with up to MaxNone fields None.
ComputeAnalyses ==
    {{}} \cup { {WithNone(a, none)} :
                 a \in FullAnalyses,
                 none \in { n \in SUBSET RequiredFields : Cardinality(n) <= MaxNone } }

\* The context argument: None, or an AdvisoryContext.
ComputeContexts ==
    {{}} \cup { {[job_posting_created_at |-> d]} : d \in {{}, {0}, {10}, {18}} }

\* _safe_decimal: clamp into [0, 1].
safe_decimal(value) == IF value < 0 THEN 0 ELSE IF value > 1000000 THEN 1000000 ELSE value

\* _validate_analysis
validate_analysis(analysis) ==
    /\ analysis # {}
    /\ \A a \in analysis : \A f \in RequiredFields : a[f] # {}

\* _plan_requests
plan_requests ==
    << [signal_type |-> "timing_hint", model_version |-> MODEL_VERSION],
       [signal_type |-> "fit_stability", model_version |-> MODEL_VERSION],
       [signal_type |-> "confidence_adjustment", model_version |-> MODEL_VERSION],
       [signal_type |-> "opportunity_risk", model_version |-> MODEL_VERSION] >>

The(optional) == CHOOSE x \in optional : TRUE

\* A timing hint that does not look for job_posting_created_at.
timing_hint_without_context_check(a, context) ==
    {[signal_type |-> "timing_hint", model_version |-> MODEL_VERSION,
      signal_payload |-> [job_age_days |-> 0, heuristic |-> "recent_posting",
                          recommendation |-> "apply_now"],
      confidence_score |-> safe_decimal(780000)]}

\* _timing_hint: None without job_posting_created_at.
timing_hint(a, context) ==
    IF context.job_posting_created_at = {}
    THEN {}
    ELSE LET days == The(a.created_at) - The(context.job_posting_created_at)
             job_age_days == IF days > 0 THEN days ELSE 0
         IN  {[signal_type |-> "timing_hint", model_version |-> MODEL_VERSION,
               signal_payload |->
                   [job_age_days |-> job_age_days,
                    heuristic |-> IF job_age_days <= 3 THEN "recent_posting" ELSE "age_decay",
                    recommendation |-> IF job_age_days <= 3 THEN "apply_now"
                                       ELSE IF job_age_days <= 14 THEN "standard_window"
                                       ELSE "deprioritize"],
               confidence_score |-> safe_decimal(IF job_age_days <= 3 THEN 780000
                                                 ELSE IF job_age_days <= 14 THEN 680000
                                                 ELSE 600000)]}

\* _fit_stability
fit_stability(a, context) ==
    LET met_count == Len(The(a.qualifications_met))
        missing_count == Len(The(a.qualifications_missing))
        total == met_count + missing_count
        stability_ratio == IF total = 0 THEN 500000 ELSE (met_count * 1000000) \div total
        volatility == IF stability_ratio >= 500000 THEN stability_ratio - 500000
                      ELSE 500000 - stability_ratio
    IN  {[signal_type |-> "fit_stability", model_version |-> MODEL_VERSION,
          signal_payload |->
              [met_count |-> met_count, missing_count |-> missing_count,
               stability_ratio |-> stability_ratio,
               inference |-> IF stability_ratio >= 500000 THEN "stable" ELSE "volatile"],
          confidence_score |-> safe_decimal(550000 + (volatility * 35) \div 100)]}

\* str.lower on the provider names met here.
lower(text) == IF text = "OpenAI" THEN "openai" ELSE text

\* _confidence_adjustment
confidence_adjustment(a, context) ==
    LET provider_key == lower(The(a.llm_provider))
        provider_bonus == IF provider_key = "openai" THEN 150000
                          ELSE IF provider_key = "anthropic" THEN 140000
                          ELSE IF provider_key = "azure" THEN 120000
                          ELSE 100000
        ratio == The(a.match_score) * 10000
        match_component == ((IF ratio > 1000000 THEN 1000000 ELSE ratio) * 4) \div 10
    IN  {[signal_type |-> "confidence_adjustment", model_version |-> MODEL_VERSION,
          signal_payload |->
              [llm_provider |-> The(a.llm_provider), llm_model |-> The(a.llm_model),
               match_score |-> The(a.match_score), provider_bonus |-> provider_bonus],
          confidence_score |-> safe_decimal(500000 + provider_bonus + match_component)]}

\* _opportunity_risk
opportunity_risk(a, context) ==
    LET missing_count == Len(The(a.qualifications_missing))
        met_count == Len(The(a.qualifications_met))
        risk_level == IF missing_count = 0 /\ met_count = 0 THEN "medium"
                      ELSE IF missing_count > met_count THEN "high"
                      ELSE IF The(a.match_score) >= 75 THEN "low"
                      ELSE "medium"
        confidence_base == IF missing_count = 0 /\ met_count = 0 THEN 550000
                           ELSE IF missing_count > met_count THEN 700000
                           ELSE IF The(a.match_score) >= 75 THEN 720000
                           ELSE 640000
    IN  {[signal_type |-> "opportunity_risk", model_version |-> MODEL_VERSION,
          signal_payload |->
              [missing_count |-> missing_count, met_count |-> met_count,
               match_score |-> The(a.match_score), risk_level |-> risk_level],
          confidence_score |-> safe_decimal(confidence_base)]}

\* compute_advisories, lines 238-254: one computation per planned request,
\* a None result left out.
computed_for(request, a, context) ==
    IF request.signal_type = "timing_hint" THEN timing_hint(a, context)
    ELSE IF request.signal_type = "fit_stability" THEN fit_stability(a, context)
    ELSE IF request.signal_type = "confidence_adjustment" THEN confidence_adjustment(a, context)
    ELSE IF request.signal_type = "opportunity_risk" THEN opportunity_risk(a, context)
    ELSE {}

RECURSIVE results_from(_, _, _)
results_from(k, a, context) ==
    IF k > Len(plan_requests) THEN << >>
    ELSE LET computed == computed_for(plan_requests[k], a, context)
         IN  (IF computed = {} THEN << >> ELSE << The(computed) >>)
                 \o results_from(k + 1, a, context)

\* compute_advisories without its try/except. readable is false for a record
\* whose attributes cannot be loaded: reading one raises.
compute_advisories_unguarded(analysis, context, readable) ==
    LET ctx == IF context = {} THEN [job_posting_created_at |-> {}] ELSE The(context)
    IN  IF analysis = {} THEN [raised |-> FALSE, results |-> << >>]
        ELSE IF ~readable THEN [raised |-> TRUE, results |-> << >>]
        ELSE IF ~validate_analysis(analysis) THEN [raised |-> FALSE, results |-> << >>]
        ELSE [raised |-> FALSE, results |-> results_from(1, The(analysis), ctx)]

\* compute_advisories: any exception gives the empty list.
compute_advisories(analysis, context, readable) ==
    LET body == compute_advisories_unguarded(analysis, context, readable)
    IN  IF body.raised THEN [raised |-> FALSE, results |-> << >>] ELSE body

\* compute_advisories called once.
EvalCompute ==
    /\ eval.op = "none"
    /\ \E analysis \in ComputeAnalyses, context \in ComputeContexts, readable \in BOOLEAN :
          eval' = [op |-> "compute", analysis |-> analysis, context |-> context,
                   readable |-> readable,
                   outcome |-> compute_advisories(analysis, context, readable)]
    /\ UNCHANGED << now, feature, budget, cache, signal, tx, call, faults, obs, reader,
                    queue, analyses, worker >>

\* --------------------------------------------------------------- behaviours
\* One step of populate call p, up to the end of its caller's session.
Populate(p, outcomes) ==
    \/ \E a \in AnalysisResults, plan \in Plans, m \in 1..MaxAdvisories : Start(p, a, plan, m)
    \/ LoadFeature(p)
    \/ SelectCache(p)
    \/ EnsureBudget(p)
    \/ ConsumeBudget(p)
    \/ \E outcome \in outcomes : Compute(p, outcome)
    \/ AddSignal(p)
    \/ InsertCache(p)
    \/ DeleteSignal(p)
    \/ Reselect(p)
    \/ RollbackPersist(p)
    \/ RollbackPopulate(p)
    \/ CallerCommit(p)
    \/ CallerClose(p)

\* The write path: concurrent populate calls with storage failures, the
\* clock, and the operator, who acts when a call is about to read the row
\* (the row is read nowhere else on this path). No result carries an expiry,
\* which only the read path looks at.
Next ==
    \/ \E p \in Calls : Populate(p, ComputeOutcomes \ {"expiring"})
    \/ Tick
    \/ (OperatorSetFeature /\ \E p \in Calls : call[p].pc = "feature")

Spec == Init /\ [][Next]_vars

\* The read path: one get_advisory_envelope call against the rows that a
\* populate call has committed. The reader's session sees committed rows
\* only, so the populate call runs without storage failures of its own and
\* before the reader starts; the operator acts where its writes can be read
\* next. The one storage failure on the write path is that of the
\* feature-state query.
Quiet == \A p \in Calls : call[p].pc \in {"idle", "closed"}

Serial(p) ==
    /\ p = 1
    /\ reader.pc = "idle"
    /\ faults' = faults

NextExposure ==
    \/ \E p \in Calls : Serial(p) /\ Populate(p, ComputeOutcomes)
    \/ \E p \in Calls : p = 1 /\ reader.pc = "idle" /\ LoadFeature(p)
    \/ Tick
    \/ (OperatorSetFeature /\ (Quiet \/ \E p \in Calls : call[p].pc = "feature"))
    \/ (OperatorDeactivate /\ Quiet)
    \/ (ExposureLoad /\ Quiet)
    \/ ExposureQuery

SpecExposure == Init /\ [][NextExposure]_vars

\* The analysis workers: each polls the queue and processes the job it finds,
\* the populate call included; the operator acts when a call is about to read
\* the feature row.
NextWorker ==
    \/ \E w \in Calls :
          \/ Poll(w)
          \/ MarkProcessing(w)
          \/ RunAnalysis(w)
          \/ MarkComplete(w)
          \/ InvokePopulate(w)
          \/ LoadFeature(w)
          \/ RollbackPopulate(w)
          \/ WorkerFinally(w)
          \/ PopulateRaised(w)
          \/ Handler(w)
    \/ (OperatorSetFeature /\ \E p \in Calls : call[p].pc = "feature")

SpecWorker == Init /\ [][NextWorker]_vars

\* The pure helpers of the gate and the cache called on any inputs.
NextRollout ==
    \/ EvalBucket
    \/ EvalEligible
    \/ EvalCacheKey
    \/ EvalGate

SpecRollout == Init /\ [][NextRollout]_vars

\* The presenter functions called on any envelope.
NextPresenter ==
    \/ EvalPanel
    \/ EvalIndicator

SpecPresenter == Init /\ [][NextPresenter]_vars

\* compute_advisories called on any analysis and context.
NextComputation == EvalCompute

SpecComputation == Init /\ [][NextComputation]_vars

TypeOK ==
    /\ now \in Times
    /\ feature \in FeatureStates
    /\ \A p \in Calls : call[p].pc \in
          {"idle", "feature", "select", "ensure", "consume", "compute", "add_signal",
           "insert_cache", "delete_signal", "reselect", "rollback_persist",
           "rollback_populate", "returned", "closed"}
    /\ faults \in 0..MaxFaults

\* ------------------------------------------------------------------ claims
AllClosed == \A p \in Calls : call[p].pc = "closed"

RECURSIVE SumOver(_, _)
SumOver(f, S) ==
    IF S = {} THEN 0
    ELSE LET x == CHOOSE y \in S : TRUE IN f[x] + SumOver(f, S \ {x})

Granted == SumOver([p \in Calls |-> obs[p].granted], Calls)
Denied == SumOver([p \in Calls |-> obs[p].denied], Calls)

\* Every version of every budget row: the committed ones and those written
\* by open transactions.
BudgetVersions == budget \cup UNION { tx[p].budget : p \in Calls }

\* C1: every Budget row, committed or written by an open transaction, has
\* used_advisories <= max_advisories, in every reachable state of concurrent
\* populate calls.
C1_UsedNeverExceedsMax ==
    \A b \in BudgetVersions : b.used_advisories <= b.max_advisories

\* C1 witness: a row is full and a concurrent consume against it was denied.
C1_Witness ==
    \E b \in budget : \E p \in Calls :
        /\ b.used_advisories = b.max_advisories
        /\ obs[p].denied > 0
        /\ << b.resume_id, b.budget_day >> \in obs[p].rows

\* Every one of the NumCalls calls did exactly one consume, against the
\* row key, met no storage failure and had its session committed.
OneConsumeEach(key) ==
    \A p \in Calls :
        /\ call[p].pc = "closed"
        /\ obs[p].committed
        /\ ~obs[p].faulted
        /\ obs[p].granted + obs[p].denied = 1
        /\ obs[p].rows = {key}

\* C2: when each of N = NumCalls callers, whose sessions all commit, did one
\* consume against the same row with max_advisories = K < N and no storage
\* failure, exactly K consumes were granted, N - K denied, and
\* used_advisories is K.
C2_ExactlyKGranted ==
    \A b \in budget :
        (OneConsumeEach(<< b.resume_id, b.budget_day >>) /\ b.max_advisories < NumCalls)
            => /\ Granted = b.max_advisories
               /\ Denied = NumCalls - b.max_advisories
               /\ b.used_advisories = b.max_advisories

\* C2 witness: such a run has ended.
C2_Witness ==
    \E b \in budget :
        /\ OneConsumeEach(<< b.resume_id, b.budget_day >>)
        /\ b.max_advisories < NumCalls

\* The signal rows of analysis a for request r.
SignalsOf(a, r) ==
    { s \in signal : /\ s.resume_id = a.resume_id
                     /\ s.job_posting_id = a.job_posting_id
                     /\ s.signal_type = r.signal_type
                     /\ s.model_version = r.model_version }

KeysOf(a) == { cache_key(a.id, r.signal_type, r.model_version) : r \in Requests }

CacheKeys == UNION { KeysOf(a) : a \in AnalysisResults }

\* C3: once all populate calls, all for the same analysis, have finished and
\* their sessions have committed, every planned (signal_type, model_version)
\* for which a call ran the persist step to its end has exactly one Signal
\* row.
C3_ExactlyOneSurvivor ==
    \A a \in AnalysisResults :
        (/\ AllClosed
         /\ \A p \in Calls : obs[p].committed /\ obs[p].computed \subseteq KeysOf(a))
            => \A r \in Requests :
                  (\E p \in Calls :
                      cache_key(a.id, r.signal_type, r.model_version) \in obs[p].persisted)
                      => Cardinality(SignalsOf(a, r)) = 1

\* C4 as stated: compute() is invoked by at most one populate call for each
\* cache key.
C4_ComputeOncePerTuple ==
    \A k \in CacheKeys : Cardinality({ p \in Calls : k \in obs[p].computed }) <= 1

\* C4 amended: a call whose cache lookup for a request runs when the key's
\* CacheEntry is committed goes on to the next request (or returns) without
\* ensure, consume or compute for it.
C4_CommittedEntryStopsCompute ==
    \A p \in Calls : obs[p].hit_committed => call[p].pc \in {"select", "returned"}

\* C4 witness: a call found the entry another call had committed and returned
\* having computed nothing.
C4_Witness ==
    \E p, q \in Calls :
        /\ p # q
        /\ obs[q].committed /\ obs[q].persisted # {}
        /\ obs[p].hit_committed /\ obs[p].computed = {}
        /\ call[p].pc = "returned"

\* C5: no two Signal rows share (resume_id, job_posting_id, signal_type,
\* model_version).
C5_OneSignalPerOwnerSubjectTuple ==
    \A s, t \in signal :
        (/\ s.resume_id = t.resume_id
         /\ s.job_posting_id = t.job_posting_id
         /\ s.signal_type = t.signal_type
         /\ s.model_version = t.model_version) => s = t

\* C6: populate_from_analysis never raises to its caller.
C6_PopulateNeverRaises ==
    \A p \in Calls : call[p].returned # "raised"

\* C8: a populate call that read an absent or disabled feature row, a
\* rollout_percent <= 0, or a rollout_percent its owner's bucket is not below,
\* returns having planned, computed and written nothing.
C8_GatedPopulateDoesNothing ==
    \A p \in Calls :
        LET fs == call[p].feature_state
            closed_gate ==
                \/ fs.absent
                \/ ~fs.enabled
                \/ fs.rollout_percent <= 0
                \/ ~(deterministic_bucket(call[p].analysis.resume_id) < fs.rollout_percent)
        IN  (call[p].pc \notin {"idle", "feature", "closed"} /\ ~obs[p].faulted /\ closed_gate)
                => /\ call[p].pc = "returned"
                   /\ obs[p].did = {}
                   /\ tx[p] = EmptyTx

\* C8 witness: a call returned at the kill switch with enabled = false and a
\* positive rollout_percent, and another at the rollout check.
C8_Witness ==
    \E p, q \in Calls :
        /\ call[p].pc = "returned" /\ call[p].feature_state = FeatureRow(FALSE, 50)
        /\ call[q].pc = "returned" /\ call[q].feature_state = FeatureRow(TRUE, 50)
        /\ call[q].analysis.resume_id = "r14" /\ obs[q].did = {}

\* C7: get_advisory_envelope never raises: it returns an envelope or absent,
\* and absent when the feature-state load, the rollout check or the signal
\* query failed.
C7_ExposureNeverRaises ==
    /\ reader.returned # "raised"
    /\ reader.pc = "done" => reader.returned \in {"absent", "envelope"}
    /\ (reader.pc = "done" /\ reader.failed) => reader.returned = "absent"

\* C7 witness: the signal query failed although a matching signal was stored.
C7_Witness ==
    /\ reader.pc = "done" /\ reader.failed
    /\ exposure_is_feature_enabled(reader.feature_state)
    /\ \E s \in signal :
          signal_filter(s, reader.resume_id, reader.job_posting_id, reader.queried_at)

\* C9: a get_advisory_envelope call that read a feature row with
\* enabled = false returns absent, whatever signals are stored.
C9_DisabledReturnsAbsent ==
    (reader.pc # "idle" /\ ~reader.feature_state.absent /\ ~reader.feature_state.enabled)
        => (reader.pc = "done" /\ reader.returned = "absent")

\* C9 witness: enabled = false with a positive rollout_percent the owner is
\* eligible for, and an active, unexpired signal of the owner and subject.
C9_Witness ==
    /\ reader.pc = "done"
    /\ reader.feature_state = FeatureRow(FALSE, 50)
    /\ reader.resume_id = "r48"
    /\ \E s \in signal : signal_filter(s, reader.resume_id, reader.job_posting_id, now)

\* C10: every signal of a returned envelope belongs to the queried owner and
\* subject, is active, and has no expiry or one later than the query time.
C10_EnvelopeSignalsEligible ==
    reader.returned = "envelope" =>
        \A k \in 1..Len(reader.signals) :
            LET s == reader.signals[k]
            IN  /\ s.resume_id = reader.resume_id
                /\ s.job_posting_id = reader.job_posting_id
                /\ s.is_active
                /\ (s.expires_at = {} \/ \E t \in s.expires_at : t > reader.queried_at)

\* C10 witness: an envelope was returned while a deactivated or an expired
\* signal of the same owner and subject was stored.
C10_Witness ==
    /\ reader.returned = "envelope"
    /\ \E s \in signal :
          /\ s.resume_id = reader.resume_id /\ s.job_posting_id = reader.job_posting_id
          /\ (~s.is_active \/ \E t \in s.expires_at : t <= reader.queried_at)

\* C11: the bucket of a resume id is one value in 0..99 on every call;
\* eligibility at p implies eligibility at every q >= p; nobody is eligible at
\* rollout_percent 0 and everybody is at 100.
C11_BucketStableEligibilityMonotone ==
    /\ eval.op = "bucket" => (eval.first = eval.again /\ eval.first \in 0..99)
    /\ eval.op = "eligible" =>
          /\ eval.at_p => eval.at_q
          /\ eval.p = 0 => ~eval.at_p
          /\ eval.q = 100 => eval.at_q

\* C11 witness: the resume id of bucket 0 is refused at 0 and admitted at 1.
C11_Witness ==
    /\ eval.op = "eligible"
    /\ eval.resume_id = "r37" /\ eval.p = 0 /\ eval.q = 1
    /\ ~eval.at_p /\ eval.at_q

\* Call p ran with no other call in flight: none was when it started, and
\* none has started since.
Alone(p) ==
    /\ obs[p].alone
    /\ \A q \in Calls : q > p => call[q].pc = "idle"

\* The budget rows of call p's owner that its session sees.
OwnerBudget(p) ==
    { b \in VisibleBudget(p) : b.resume_id = call[p].analysis.resume_id }

\* Call p worked against one budget row of its owner only (one day), met no
\* storage failure, and every compute it invoked ended in a persisted signal.
OneDayAllSucceed(p) ==
    /\ Alone(p)
    /\ ~obs[p].faulted
    /\ obs[p].computed = obs[p].persisted
    /\ Cardinality(OwnerBudget(p)) = 1
    /\ \A b \in OwnerBudget(p) : obs[p].rows = {<< b.resume_id, b.budget_day >>}

\* C12: a call that ran alone within one day, found a remaining budget of K
\* and had M uncached requests that all compute successfully, computes and
\* persists the first min(K, M) of them in plan order; each of the others is
\* denied, logged as budget_exhausted and never computed.
C12_FirstKComputed ==
    \A p \in Calls :
        /\ (call[p].pc = "returned" /\ OneDayAllSucceed(p)) =>
              \A b \in OwnerBudget(p) :
                  LET M == obs[p].granted + obs[p].denied
                      K == b.max_advisories - b.used_advisories + obs[p].granted
                  IN  /\ obs[p].granted = IF K < M THEN K ELSE M
                      /\ Cardinality(obs[p].computed) = obs[p].granted
                      /\ Cardinality(tx[p].signal) = obs[p].granted
                      /\ Cardinality(obs[p].exhausted) = M - obs[p].granted
                      /\ obs[p].exhausted \cap obs[p].computed = {}
        /\ (/\ call[p].pc = "compute"
            /\ Alone(p) /\ ~obs[p].faulted /\ Cardinality(OwnerBudget(p)) = 1)
              => obs[p].denied = 0

\* C12 witness: max_advisories 1 and the plan [fit_stability,
\* opportunity_risk]: the first is persisted, the second denied.
C12_Witness ==
    \E p \in Calls :
        /\ call[p].pc = "returned" /\ OneDayAllSucceed(p)
        /\ \A b \in OwnerBudget(p) : b.max_advisories = 1 /\ b.used_advisories = 1
        /\ obs[p].computed = {cache_key(call[p].analysis.id, "fit_stability", "v1")}
        /\ obs[p].exhausted = {cache_key(call[p].analysis.id, "opportunity_risk", "v1")}
        /\ Cardinality(tx[p].signal) = 1

\* compute() invocations of the calls that consumed against the budget row
\* of (resume_id, day) and no other.
ComputesOn(resume_id, day) ==
    SumOver([p \in Calls |->
                IF obs[p].rows = {<< resume_id, day >>}
                THEN Cardinality(obs[p].computed) ELSE 0], Calls)

\* C13: for every owner and day, the compute() invocations of all populate
\* calls together never exceed max_advisories of the owner's budget row of
\* that day.
C13_ComputesWithinBudget ==
    \A b \in budget : ComputesOn(b.resume_id, b.budget_day) <= b.max_advisories

\* The positions of a populate call between its entry and its return.
InPopulate ==
    {"feature", "select", "ensure", "consume", "compute", "add_signal", "insert_cache",
     "delete_signal", "reselect", "rollback_persist", "rollback_populate"}

\* C14: no step of a populate call, its rollbacks included, changes the
\* feature row, the committed analysis records, or the job status: the
\* analysis it was given stays committed and the job status its session sees
\* is the same after the step as before.
C14_PopulateLeavesCommittedWork ==
    [][\A w \in Calls :
          (call[w].pc \in InPopulate /\ call'[w] # call[w]) =>
              /\ feature' = feature
              /\ analyses' = analyses
              /\ queue' = queue
              /\ JobStatusSeen(w)' = JobStatusSeen(w)
              /\ call[w].analysis \in analyses']_vars

\* C14 witness: a populate call rolled back and returned, and the job is
\* still complete and its analysis committed.
C14_Witness ==
    \E w \in Calls :
        /\ call[w].pc = "returned" /\ obs[w].faulted /\ tx[w] = EmptyTx
        /\ queue.status = "complete"
        /\ WorkerAnalysis(w) \in analyses

\* The worker has called populate with the analysis it created.
Invoked(w) == call[w].pc # "idle"

\* Populate is called only with a committed analysis record and after the
\* job's completion was committed.
C15_OnlyAfterBothCommits ==
    \A w \in Calls :
        Invoked(w) =>
            /\ call[w].pc # "closed" => call[w].analysis = WorkerAnalysis(w)
            /\ WorkerAnalysis(w) \in analyses
            /\ worker[w].completion_committed

\* C15: the worker invokes populate exactly once for each committed analysis
\* record, and only after the record and the job's completion are committed:
\* once a worker has finished its job, the record it committed has been
\* handed to populate.
C15_PopulateOncePerCommittedAnalysis ==
    /\ C15_OnlyAfterBothCommits
    /\ \A w \in Calls :
          (worker[w].pc = "done" /\ WorkerAnalysis(w) \in analyses) => Invoked(w)

\* The stored signals of an owner and subject that are active and not expired
\* at time at.
ActiveUnexpired(resume_id, job_posting_id, at) ==
    { s \in signal :
         /\ s.resume_id = resume_id /\ s.job_posting_id = job_posting_id
         /\ s.is_active
         /\ \A t \in s.expires_at : t > at }

\* C16: a get_advisory_envelope call that finds no active, unexpired signal of
\* the owner and subject returns absent; one that passes the gate and whose
\* query works returns an envelope exactly when there is such a signal, and the
\* envelope has advisory_only true, one entry per such signal, newest first,
\* and generated_at equal to the newest computed_at.
C16_EnvelopeNewestFirst ==
    [][(reader.pc # "done" /\ reader'.pc = "done") =>
          LET found == ActiveUnexpired(reader'.resume_id, reader'.job_posting_id, now)
          IN  /\ found = {} => (reader'.returned = "absent" /\ reader'.envelope = {})
              /\ reader.pc = "query" =>
                    (reader'.returned = "envelope" <=> (found # {} /\ ~reader'.failed))
              /\ reader'.returned = "envelope" <=> reader'.envelope # {}
              /\ \A e \in reader'.envelope :
                    /\ e.advisory_only = TRUE
                    /\ e.resume_id = reader'.resume_id
                    /\ e.job_posting_id = reader'.job_posting_id
                    /\ Len(e.signals) >= 1
                    /\ Len(e.signals) = Cardinality(found)
                    /\ \A i, j \in 1..Len(e.signals) :
                          i < j => e.signals[i].computed_at >= e.signals[j].computed_at
                    /\ \A s \in found : e.generated_at >= s.computed_at
                    /\ \E s \in found : e.generated_at = s.computed_at]_vars

\* C16 witness: an envelope with two signals computed at different times was
\* returned.
C16_Witness ==
    /\ reader.returned = "envelope"
    /\ \E e \in reader.envelope :
          /\ Len(e.signals) = 2
          /\ e.signals[1].computed_at > e.signals[2].computed_at
          /\ e.generated_at = e.signals[1].computed_at

\* C17: a step of get_advisory_envelope, whatever its inputs and outcome,
\* leaves the feature, budget, cache and signal tables and every session's
\* pending rows as they were, and starts or advances no populate call: no
\* plan and no compute happens because of it.
C17_ExposureReadOnly ==
    [][reader' # reader =>
          /\ feature' = feature /\ budget' = budget /\ cache' = cache /\ signal' = signal
          /\ tx' = tx
          /\ call' = call /\ obs' = obs]_vars

\* C17 witness: a get_advisory_envelope call ended on a failed query while
\* budget, cache and signal rows were stored, a signal past its expiry among
\* them.
C17_Witness ==
    /\ reader.pc = "done" /\ reader.failed /\ reader.returned = "absent"
    /\ budget # {} /\ cache # {}
    /\ \E s \in signal : s.is_active /\ \E t \in s.expires_at : t <= reader.queried_at

\* The feature-state query of populate call p failed.
LoadFailed(p) == obs[p].faulted /\ call[p].feature_state = NoRow

\* A storage failure while the feature state is loaded is fail-closed: a
\* populate call whose query failed plans nothing, computes nothing and writes
\* no row, pending or committed; a get_advisory_envelope call whose query
\* failed returns absent.
C18_LoadFailureFailsClosed ==
    /\ \A p \in Calls :
          LoadFailed(p) =>
              /\ call[p].pc \in {"rollback_populate", "returned", "closed"}
              /\ "plan" \notin obs[p].did /\ obs[p].computed = {} /\ obs[p].granted = 0
              /\ tx[p].budget = {} /\ tx[p].cache = {} /\ tx[p].signal = {}
              /\ budget = {} /\ cache = {} /\ signal = {}
    /\ (reader.pc = "done" /\ reader.load_failed) =>
          (reader.returned = "absent" /\ reader.envelope = {})

\* The fail-closed case: the feature was enabled for everybody's bucket under 50 when
\* a populate call with a plan of two requests and, after it, a
\* get_advisory_envelope call for the same owner both failed to load the row.
C18_Witness ==
    /\ is_feature_enabled(feature) /\ feature.rollout_percent = 50
    /\ \E p \in Calls : LoadFailed(p) /\ call[p].pc = "closed"
    /\ reader.pc = "done" /\ reader.load_failed /\ reader.resume_id = "r48"
    /\ reader.returned = "absent"

\* C18: a storage failure while the feature state is loaded is treated
\* exactly like a disabled feature on both paths: populate returns to its
\* caller, as it does for a disabled feature, without any write or compute,
\* and get_advisory_envelope returns absent.
C18_LoadFailureLikeDisabled ==
    /\ C18_LoadFailureFailsClosed
    /\ \A p \in Calls :
          (LoadFailed(p) /\ call[p].pc = "returned") => call[p].returned = "normal"

\* What a finished get_advisory_envelope call hands to its caller.
ReturnedValue(r) == [returned |-> r.returned, signals |-> r.signals, envelope |-> r.envelope]

\* The one value that stands for "no advisory".
Absent == [returned |-> "absent", signals |-> << >>, envelope |-> {}]

\* C19: whichever cause keeps a get_advisory_envelope call from returning
\* signals (the feature disabled or its row missing, the owner outside the
\* rollout, no active unexpired signal stored, or a failure of a query or of
\* the rollout check), the call returns the same value, absent, and the
\* route answers 204 without a body: the causes cannot be told apart.
C19_AbsentWhateverTheCause ==
    [][(reader.pc # "done" /\ reader'.pc = "done") =>
          LET r == reader'
              gate_closed == ~exposure_is_feature_enabled(r.feature_state)
              outside_rollout ==
                  /\ ~gate_closed /\ r.resume_id \in Resumes
                  /\ ~exposure_is_rollout_eligible(r.resume_id, r.feature_state.rollout_percent)
              nothing_stored == ActiveUnexpired(r.resume_id, r.job_posting_id, now) = {}
          IN  (gate_closed \/ outside_rollout \/ nothing_stored \/ r.failed) =>
                  /\ ReturnedValue(r) = Absent
                  /\ get_advisory(r.returned, r.envelope) = [status_code |-> 204, body |-> {}]]_vars

\* C19 witness: absent was returned to an owner inside the rollout of an
\* enabled feature, with no failure, while a signal of that owner and subject
\* was stored but deactivated.
C19_Witness ==
    /\ reader.pc = "done" /\ ReturnedValue(reader) = Absent /\ ~reader.failed
    /\ exposure_is_feature_enabled(reader.feature_state)
    /\ exposure_is_rollout_eligible(reader.resume_id, reader.feature_state.rollout_percent)
    /\ \E s \in signal :
          /\ s.resume_id = reader.resume_id /\ s.job_posting_id = reader.job_posting_id
          /\ ~s.is_active

\* C20: build_guidance_panel and build_job_card_indicator return absent or a
\* view model that carries the advisory_only marker (True in the panel, the
\* text "true" in the indicator, whose values are all text) and the
\* REQUIRED_DISCLAIMER text as disclaimer; both return absent when
\* advisory_enabled is false, when there is no envelope, and when the
\* envelope has no signals.
C20_ViewModelMarkedAdvisory ==
    eval.op \in {"panel", "indicator"} =>
        /\ Cardinality(eval.result) <= 1
        /\ \A v \in eval.result :
              /\ v.disclaimer = REQUIRED_DISCLAIMER
              /\ eval.op = "panel" => v.advisory_only = TRUE
              /\ eval.op = "indicator" => v.advisory_only = "true"
        /\ (\/ ~eval.advisory_enabled
            \/ eval.advisory = {}
            \/ \E a \in eval.advisory : Len(a.signals) = 0) => eval.result = {}

\* C20 witness: the panel was built from an envelope of two signals, one of
\* them without a summary.
C20_Witness ==
    /\ eval.op = "panel" /\ eval.advisory_enabled
    /\ \E a \in eval.advisory :
          /\ Len(a.signals) = 2
          /\ a.signals[1].summary = {} /\ a.signals[2].type # a.signals[1].type
    /\ \E v \in eval.result : Len(v.items) = 1 /\ v.advisory_only

\* The number of results of a compute_advisories call with this signal type.
ResultsOfType(signal_type) ==
    Cardinality({ k \in 1..Len(eval.outcome.results) :
                     eval.outcome.results[k].signal_type = signal_type })

\* C21: for an analysis whose required fields are all present,
\* compute_advisories returns exactly one result for each of fit_stability,
\* confidence_adjustment and opportunity_risk, one timing_hint result when
\* the context carries job_posting_created_at and none when it does not, and
\* nothing else.
C21_OneResultPerSignalType ==
    (eval.op = "compute" /\ eval.readable /\ validate_analysis(eval.analysis)) =>
        LET timed == \E c \in eval.context : c.job_posting_created_at # {}
        IN  /\ ResultsOfType("fit_stability") = 1
            /\ ResultsOfType("confidence_adjustment") = 1
            /\ ResultsOfType("opportunity_risk") = 1
            /\ ResultsOfType("timing_hint") = (IF timed THEN 1 ELSE 0)
            /\ Len(eval.outcome.results) = (IF timed THEN 4 ELSE 3)
            /\ \A k \in 1..Len(eval.outcome.results) :
                  eval.outcome.results[k].model_version = MODEL_VERSION

\* C21 witness: four results for a posting that was ten days old.
C21_Witness ==
    /\ eval.op = "compute" /\ Len(eval.outcome.results) = 4
    /\ eval.outcome.results[1].signal_type = "timing_hint"
    /\ eval.outcome.results[1].signal_payload.recommendation = "standard_window"

\* C22: compute_advisories returns the empty list whenever a required field
\* of the analysis is None, and it raises for no input, an analysis that is
\* None or whose attributes cannot be read included.
C22_InvalidAnalysisGivesEmptyList ==
    eval.op = "compute" =>
        /\ ~eval.outcome.raised
        /\ (\E a \in eval.analysis : \E f \in RequiredFields : a[f] = {}) =>
               eval.outcome.results = << >>
        /\ (eval.analysis = {} \/ ~eval.readable) => eval.outcome.results = << >>

\* C22 witness: the empty list for an analysis whose match_score alone is
\* None, with a context that carries job_posting_created_at.
C22_Witness ==
    /\ eval.op = "compute" /\ eval.outcome.results = << >> /\ ~eval.outcome.raised
    /\ eval.readable
    /\ \E a \in eval.analysis :
          a.match_score = {} /\ \A f \in RequiredFields \ {"match_score"} : a[f] # {}
    /\ \E c \in eval.context : c.job_posting_created_at # {}

\* The rows session p has written for its current request are settled: every
\* Signal it holds is referenced by a CacheEntry it holds, but for the one of
\* a request that is between its Signal insert and the end of its persist
\* step, or whose transaction is aborted and waits for its rollback.
OwnSignalsClaimed(p) ==
    \A s \in tx[p].signal :
        \/ \E c \in tx[p].cache : c.signal_id = s.id
        \/ /\ call[p].pc \in {"insert_cache", "delete_signal", "rollback_persist"}
           /\ s.id = SignalId(p, call[p])
        \/ tx[p].failed

\* The committed rows pair up: one CacheEntry per key, each referencing a
\* stored Signal, and no stored Signal without the CacheEntry that claimed it.
WinnersOnly ==
    /\ \A c, d \in cache : c.cache_key = d.cache_key => c = d
    /\ \A c \in cache : \E s \in signal : s.id = c.signal_id
    /\ \A s \in signal : \E c \in cache : c.signal_id = s.id

\* C23: of the calls that race on a cache key, the one whose cache insert
\* succeeds first keeps its Signal, whichever started or wrote its Signal
\* first; a call whose insert finds the key taken deletes the Signal it just
\* wrote, so no Signal of a loser is ever stored beside the winner's; and no
\* step of any call changes or removes a committed CacheEntry or Signal.
C23_FirstCacheInsertWins ==
    [][/\ WinnersOnly'
       /\ \A p \in Calls :
             /\ OwnSignalsClaimed(p)'
             /\ (call[p].pc = "delete_signal" /\ call'[p].pc = "reselect") =>
                    /\ \E s \in tx[p].signal : s.id = SignalId(p, call[p])
                    /\ \A s \in tx'[p].signal : s.id # SignalId(p, call[p])
       /\ cache \subseteq cache'
       /\ signal \subseteq signal']_vars

\* C23 witness: call 1 started first and wrote its Signal, call 2 committed
\* the CacheEntry of the key, and call 1 has deleted its Signal.
C23_Witness ==
    /\ call[1].pc = "reselect"
    /\ \A s \in tx[1].signal : s.id # SignalId(1, call[1])
    /\ \E c \in cache :
          /\ c.cache_key = CurrentKey(call[1])
          /\ c.signal_id[1] = 2
          /\ \E s \in signal : s.id = c.signal_id

\* The steps of one iteration of the populate loop, in order.
StepOrder == << "select", "ensure", "consume", "compute", "add_signal", "insert_cache" >>

Position(pc) == CHOOSE k \in 1..Len(StepOrder) : StepOrder[k] = pc

\* C24: within one iteration the steps run in the order cache lookup, budget
\* ensure, budget consume, compute, Signal insert, cache insert. A call gets
\* to a step only from the step before it, in the same iteration and with
\* its transaction intact; a new iteration starts at the cache lookup;
\* compute is invoked only at the compute step, which a granted consume has
\* led to; a Signal is inserted only at the Signal insert step, which a
\* compute has led to.
C24_StepsInOrder ==
    [][\A p \in Calls :
          LET from == call[p].pc
              to == call'[p].pc
              steps == { StepOrder[k] : k \in 1..Len(StepOrder) }
          IN  /\ (to \in steps /\ to # from) =>
                    IF to = "select"
                    THEN call'[p].i = call[p].i + 1
                    ELSE /\ from \in steps
                         /\ Position(to) = Position(from) + 1
                         /\ call'[p].i = call[p].i
                         /\ ~tx'[p].failed
              /\ to = "compute" /\ from # "compute" =>
                    /\ obs'[p].granted = obs[p].granted + 1
                    /\ \E b \in tx'[p].budget : b.used_advisories >= 1
              /\ obs'[p].computed # obs[p].computed => from = "compute"
              /\ ~(tx'[p].signal \subseteq tx[p].signal) =>
                    /\ from = "add_signal"
                    /\ CurrentKey(call[p]) \in obs[p].computed]_vars

\* C24 witness: the compute of the first request returned nothing, so no
\* Signal was inserted for it; the second request went through every step up
\* to its cache insert.
C24_Witness ==
    \E p \in Calls :
        /\ call[p].pc = "insert_cache" /\ call[p].i = 2
        /\ obs[p].granted = 2 /\ Cardinality(obs[p].computed) = 2
        /\ Cardinality(tx[p].signal) = 1 /\ tx[p].cache = {}
        /\ ~obs[p].faulted

\* The Signal a CacheEntry references, among the rows of a set.
SignalOf(c, rows) == { s \in rows : s.id = c.signal_id }

\* C25: Computed is terminal. A CacheEntry that a populate call owns together
\* with its Signal, pending in the call's session or committed, is still
\* there with the same Signal after every step, unless the caller ends the
\* session without a commit that goes through.
C25_ComputedIsTerminal ==
    [][/\ \A c \in cache :
             c \in cache' /\ SignalOf(c, signal) \subseteq signal'
       /\ \A p \in Calls : \A c \in tx[p].cache :
             \/ c \in tx'[p].cache /\ SignalOf(c, tx[p].signal) \subseteq tx'[p].signal
             \/ c \in cache' /\ SignalOf(c, tx[p].signal) \subseteq signal'
             \/ call'[p].pc = "closed" /\ ~obs'[p].committed]_vars

\* The cache lookup of call p for its current request is about to find an
\* entry: one is stored under the key, committed or written by p itself.
CacheHit(p) ==
    /\ call[p].pc = "select"
    /\ \E c \in cache \cup tx[p].cache : c.cache_key = CurrentKey(call[p])

\* C26: a cache lookup that finds an entry makes populate skip the request:
\* the call goes on to the next request or returns, with no ensure, consume
\* or compute, no row written, and the budget rows as they were.
C26_CacheHitSkips ==
    [][\A p \in Calls :
          (CacheHit(p) /\ call'[p] # call[p] /\ ~tx'[p].failed) =>
              /\ call'[p] = NextRequest(call[p])
              /\ tx'[p] = tx[p]
              /\ budget' = budget /\ cache' = cache /\ signal' = signal
              /\ obs'[p].granted = obs[p].granted /\ obs'[p].denied = obs[p].denied
              /\ obs'[p].computed = obs[p].computed
              /\ obs'[p].did = obs[p].did]_vars

\* C26 witness: a call found the committed entry of another call for its one
\* request and returned with nothing consumed, computed or written.
C26_Witness ==
    \E p \in Calls :
        /\ call[p].pc = "returned" /\ obs[p].hit_committed /\ ~obs[p].faulted
        /\ obs[p].granted = 0 /\ obs[p].denied = 0 /\ obs[p].computed = {}
        /\ tx[p] = EmptyTx
        /\ \E b \in budget : b.used_advisories = 1

\* C27: when compute for a planned request raises or returns nothing, no
\* Signal or CacheEntry is written for that request and the loop goes on: the
\* call moves to the cache lookup of the next request, or returns normally
\* after the last one.
C27_ComputeFailureIsolated ==
    [][\A p \in Calls :
          (call[p].pc = "compute" /\ call'[p] # call[p] /\ call'[p].pc # "add_signal") =>
              /\ tx'[p] = tx[p]
              /\ cache' = cache /\ signal' = signal
              /\ \A s \in tx'[p].signal \cup signal' : s.id # SignalId(p, call[p])
              /\ IF call[p].i < Len(call[p].plan)
                 THEN /\ call'[p].pc = "select"
                      /\ call'[p].i = call[p].i + 1
                      /\ call'[p].plan = call[p].plan
                 ELSE call'[p].pc = "returned" /\ call'[p].returned = "normal"]_vars

\* C27 witness: the compute of the first of two requests failed, and the
\* second request was computed and persisted all the same.
C27_Witness ==
    \E p \in Calls :
        /\ call[p].pc = "returned" /\ call[p].returned = "normal" /\ ~obs[p].faulted
        /\ Cardinality(obs[p].computed) = 2 /\ Cardinality(obs[p].persisted) = 1
        /\ \E s \in tx[p].signal : s.id = << p, 2 >> /\ tx[p].signal = {s}
        /\ Cardinality(tx[p].cache) = 1

\* C28: a storage failure while the Signal or CacheEntry of one request is
\* persisted only skips that request. While a call runs its loop, and when
\* it has returned normally, every CacheEntry it has persisted is visible to
\* its session together with its Signal, and a call that ran alone sees the
\* budget consumption of the requests it persisted in the Budget row.
C28_EarlierRequestsKept ==
    \A p \in Calls :
        (\/ call[p].pc \in {"select", "ensure", "consume", "compute", "add_signal",
                            "insert_cache"}
         \/ call[p].pc = "returned" /\ call[p].returned = "normal") =>
            /\ \A k \in obs[p].persisted :
                  \E c \in cache \cup tx[p].cache :
                      /\ c.cache_key = k
                      /\ SignalOf(c, signal \cup tx[p].signal) # {}
            /\ (Alone(p) /\ obs[p].persisted # {}) =>
                  \E b \in VisibleBudget(p) :
                      b.used_advisories >= Cardinality(obs[p].persisted)

\* C29: a Signal that populate persisted is durable. Once the caller's session
\* is closed, every CacheEntry the call persisted is stored with its Signal,
\* and the stored Budget row counts the advisories of those requests.
C29_PersistedIsDurable ==
    \A p \in Calls :
        (call[p].pc = "closed" /\ obs[p].persisted # {}) =>
            /\ \A k \in obs[p].persisted :
                  \E c \in cache : c.cache_key = k /\ SignalOf(c, signal) # {}
            /\ \E b \in budget : b.used_advisories >= Cardinality(obs[p].persisted)

\* The rows of the (resume_id, budget_day) key among rows.
BudgetRowsOf(rows, resume_id, day) == { b \in rows : SameBudgetKey(b, resume_id, day) }

\* uq_p3_budget_resume_day: the stored table, and the table as each session
\* sees it, hold at most one Budget row per (resume_id, budget_day).
OneBudgetRowPerKey ==
    /\ \A b \in budget : BudgetRowsOf(budget, b.resume_id, b.budget_day) = {b}
    /\ \A p \in Calls : \A b \in VisibleBudget(p) :
          BudgetRowsOf(VisibleBudget(p), b.resume_id, b.budget_day) = {b}

\* C30: ensure is idempotent. Whatever steps are interleaved, there is never
\* more than one Budget row per (owner, day); an ensure whose statement does
\* not fail goes on to consume with exactly one row of its key in view, also
\* when the row was already there; and an ensure on an existing row leaves
\* every Budget row its session sees as it was, whatever max the call carries.
C30_EnsureIdempotent ==
    [][ /\ OneBudgetRowPerKey'
        /\ \A p \in Calls :
              (call[p].pc = "ensure" /\ call'[p] # call[p]) =>
                  LET r == call[p].analysis.resume_id
                      day == Today(now)
                      existing == BudgetRowsOf(VisibleBudget(p), r, day)
                  IN  /\ (~tx[p].failed /\ faults' = faults) =>
                            /\ call'[p].pc = "consume"
                            /\ ~tx'[p].failed
                            /\ Cardinality(BudgetRowsOf(VisibleBudget(p)', r, day)) = 1
                      /\ existing # {} => VisibleBudget(p)' = VisibleBudget(p)
      ]_vars

\* A call is past an ensure that found the Budget row of its key, made by a
\* call with another max_advisories and already counted up.
C30_Witness ==
    \E p \in Calls :
        /\ call[p].pc = "consume"
        /\ \E b \in BudgetRowsOf(VisibleBudget(p), call[p].analysis.resume_id, Today(now)) :
              /\ b.max_advisories # call[p].max_advisories
              /\ b.used_advisories > 0

\* C31: with a plan that is empty, as that of the NoOpAdvisoryComputer the
\* analysis worker passes, populate never enters its loop: the call is only
\* ever at the gate or over, no Budget row, Signal or CacheEntry is stored or
\* pending in its session, no budget was granted or denied and compute was
\* not invoked.
C31_EmptyPlanWritesNothing ==
    /\ budget = {} /\ cache = {} /\ signal = {}
    /\ \A w \in Calls :
          /\ call[w].plan = << >>
          /\ call[w].pc \in {"idle", "feature", "rollback_populate", "returned", "closed"}
          /\ tx[w].budget = {} /\ tx[w].cache = {} /\ tx[w].signal = {}
          /\ obs[w].computed = {} /\ obs[w].persisted = {} /\ obs[w].rows = {}
          /\ obs[w].granted = 0 /\ obs[w].denied = 0
          /\ "write" \notin obs[w].did /\ "compute" \notin obs[w].did

\* A worker's populate call passed the gate and the rollout check, got the
\* empty plan and returned.
C31_Witness ==
    \E w \in Calls :
        /\ worker[w].pc = "populate"
        /\ call[w].pc = "returned" /\ call[w].returned = "normal"
        /\ "plan" \in obs[w].did
        /\ is_feature_enabled(call[w].feature_state)
        /\ is_rollout_eligible(call[w].analysis.resume_id, call[w].feature_state.rollout_percent)

\* C32: the cache key distinguishes computation tuples. Two tuples get the
\* same key only when they have the same analysis id, the same signal_type
\* and the same model_version.
C32_CacheKeyDistinguishesTuples ==
    eval.op = "cache_key" => (eval.key_a = eval.key_b => eval.a = eval.b)

AllEqual(seq) == \A i, j \in DOMAIN seq : seq[i] = seq[j]

EntriesOf(s, entries) == { c \in entries : c.signal_id = s.id }

\* C34: Signals and CacheEntries stay paired. Every stored CacheEntry, and
\* every CacheEntry a session sees, refers to a Signal that is there; every
\* stored Signal is referred to by exactly one stored CacheEntry, whether or
\* not a call is in flight, whatever statement of a call failed.
C34_SignalsAndEntriesPaired ==
    /\ \A c \in cache : SignalOf(c, signal) # {}
    /\ \A p \in Calls : \A c \in VisibleCache(p) : SignalOf(c, signal \cup tx[p].signal) # {}
    /\ \A s \in signal : Cardinality(EntriesOf(s, cache)) = 1

\* A call lost the cache race and has just deleted its own Signal: its
\* session holds no Signal, and the winner's Signal is stored with its entry.
C34_Witness ==
    \E p \in Calls :
        /\ call[p].pc = "reselect"
        /\ tx[p].signal = {}
        /\ \E c \in cache : c.cache_key = CurrentKey(call[p]) /\ SignalOf(c, signal) # {}

\* C35: within one iteration ensure and consume act on the same Budget row.
\* When a call that runs alone makes its consume after a successful ensure,
\* the statement does not fail and every Budget row of the owner that its
\* session sees, the ensured one among them, has used_advisories below
\* max_advisories, the consume is granted and the call goes on to compute,
\* whatever the clock did between the two steps.
C35_ConsumeFollowsEnsure ==
    [][ \A p \in Calls :
          (/\ call[p].pc = "consume" /\ call'[p] # call[p]
           /\ Alone(p)
           /\ ~tx[p].failed /\ faults' = faults
           /\ OwnerBudget(p) # {}
           /\ \A b \in OwnerBudget(p) : b.used_advisories < b.max_advisories)
              => call'[p].pc = "compute"
      ]_vars

\* C36: event emission never affects control flow. A populate call whose
\* feature-state query fails logs the contract_violation event and returns;
\* it does so whether or not the event can be emitted, so the step that
\* follows the failed query always ends the call with a normal return.
C36_EmissionLeavesControlFlow ==
    [][ \A p \in Calls :
          (call[p].pc = "feature" /\ call'[p] # call[p] /\ faults' # faults)
              => (call'[p].pc = "returned" /\ call'[p].returned = "normal")
      ]_vars

\* C37: the compute_success event with decision 'persisted' is emitted for a
\* request only by the call whose Signal survives. In the step in which a
\* call emits the event for a key, its session holds the CacheEntry of that
\* key that its own insert created, together with the Signal it refers to.
C37_PersistedOnlyForSurvivor ==
    [][ \A p \in Calls : \A k \in obs'[p].persisted \ obs[p].persisted :
          \E c \in tx'[p].cache : c.cache_key = k /\ SignalOf(c, tx'[p].signal) # {}
      ]_vars

\* The workers that hold the job between their poll and the end of
\* process_analysis_job.
Processing ==
    { w \in Calls : worker[w].pc \in {"picked", "analysis", "complete", "populate", "handler"} }

\* C38: no analysis queue job is processed by two workers at once. Once a
\* worker's poll has selected the pending job, no other worker holds it
\* before that worker is done with it.
C38_OneWorkerPerJob == Cardinality(Processing) <= 1

====
